---- MODULE Spec2Model ----
(***************************************************************************)
(* KERNL semantic indexing and retrieval engine.                           *)
(*                                                                         *)
(* The specifications of this module, over one set of variables:           *)
(*   SpecEmbed     the embedding provider (intelligence/embeddings.ts):    *)
(*                 concurrent embed / embedBatch / preload callers around  *)
(*                 the lazily loaded singleton pipeline;                   *)
(*   Spec          the indexing coordinator (tools/semantic-search.ts)     *)
(*                 over the file_index table (storage/database.ts) and a   *)
(*                 file system that changes under it;                      *)
(*   SpecSearch    the retrieval engine: search_semantic and               *)
(*                 suggest_patterns as functions of the index state and    *)
(*                 their inputs;                                           *)
(*   SpecPatterns  record_pattern and the patterns table;                  *)
(*   SpecTable     the file_index table row by row;                        *)
(*   SpecWalk      the discovery walk of pm_index_files;                   *)
(*   SpecCodec     the embedding codec and the similarity functions;       *)
(*   SpecRace      two indexing calls in flight on one file;               *)
(*   SpecBatch     the aggregate result of a batch;                        *)
(*   SpecPaths     caller-supplied paths, row keys and the files read.     *)
(***************************************************************************)
EXTENDS Integers, Sequences, FiniteSets, TLC

VARIABLES
  embeddingPipeline,  \* the singleton: 0 (null) or the id of the load that set it
  initPromise,        \* the memoized promise: 0 (null) or the id of its load
  loads,              \* loads[i]: state of the promise of the i-th started load
  callers,            \* the in-flight calls of embed / embedBatch / preload
  projects,           \* the registered project ids (projects table)
  fs,                 \* fs[p]: content of the file at path p, or NoFile
  db,                 \* db[p]: the file_index row of (project, p), or NoRow
  fileIndex,          \* the file_index table row by row, keys included
  clock,              \* the wall clock read by new Date()
  tasks,              \* the in-flight calls of the indexing entry points
  patterns,           \* the patterns table, in getPatterns() order
  patternSeq,         \* the largest pattern id handed out (AUTOINCREMENT)
  reply               \* what the last search_semantic / suggest_patterns returned

embedVars == <<embeddingPipeline, initPromise, loads, callers>>
modelVars == <<embeddingPipeline, initPromise, loads>>
indexVars == <<projects, fs, db, fileIndex, clock, tasks>>
searchVars == <<patterns, patternSeq, reply>>

vars == <<embeddingPipeline, initPromise, loads, callers,
          projects, fs, db, fileIndex, clock, tasks, patterns, patternSeq, reply>>

(***************************************************************************)
(* Bounds                                                                  *)
(***************************************************************************)
MaxCallers == 2
MaxTexts == 2
MaxClock == 3
MaxPatterns == 2

Callers == 1..MaxCallers

(***************************************************************************)
(* Files, rows and vectors                                                 *)
(***************************************************************************)
TaskIds == {"t1"}

\* The project's files in readdir order, with extname() of each.
PathOrder == <<"a.ts", "b.ts", "logo.png">>
Paths == {PathOrder[i] : i \in 1..Len(PathOrder)}
extname(p) ==
  CASE p = "logo.png" -> ".png"
    [] p = "lib.js" -> ".js"
    [] p = ".eslintrc.json" -> ".json"
    [] OTHER -> ".ts"

TEXT_EXTENSIONS ==
  {".ts", ".tsx", ".js", ".jsx", ".json", ".md", ".txt",
   ".html", ".css", ".scss", ".less", ".yaml", ".yml",
   ".xml", ".sql", ".sh", ".bash", ".ps1", ".py", ".rb",
   ".java", ".kt", ".go", ".rs", ".c", ".cpp", ".h",
   ".cs", ".fs", ".vue", ".svelte", ".astro", ".toml"}

\* What a text file may hold, and the marker of a path with no file.
Contents == {"parses tokens", "renders a button"}
NoFile == "ENOENT"
\* logo.png is there from the start and is never rewritten.
BinaryContent == "PNG"
ProjectId == "demo"
NoRow == [absent |-> TRUE]

\* createHash('md5').update(content).digest('hex')
contentHash(c) == <<"md5", c>>
\* content.substring(0, 1000)
contentPreview(c) == <<"head1000", c>>
\* The vector the model yields for a text, in hundredths per component.
\* Texts are truncated to 8000 characters first; contents here are short.
EmbeddingOf(c) ==
  CASE c = "parses tokens" -> <<98, 20>>
    [] c = "renders a button" -> <<60, 80>>
    [] c = "token parsing" -> <<95, 31>>
    [] c = "button rendering" -> <<58, 81>>
    [] OTHER -> <<1, 100>>

\* A Float32Array: a view of `length` elements at `byteOffset` bytes into an
\* ArrayBuffer, which is held here element by element (4 bytes each).
\* new Float32Array(data) copies the elements into a buffer of its own.
Float32Array(data) ==
  [buffer |-> data, byteOffset |-> 0, length |-> Len(data)]

\* The elements a Float32Array shows: v[0] .. v[v.length - 1].
Elements(v) ==
  SubSeq(v.buffer, (v.byteOffset \div 4) + 1, (v.byteOffset \div 4) + v.length)

\* embed(text) returns new Float32Array(output.data).
embed(text) == Float32Array(EmbeddingOf(text))

\* Buffer.from(embedding.buffer): a Buffer over the whole ArrayBuffer that
\* backs the Float32Array, from its byte 0 to its last byte.
serializeEmbedding(embedding) ==
  [buffer |-> embedding.buffer, byteOffset |-> 0,
   length |-> 4 * Len(embedding.buffer)]

\* new Float32Array(buffer.buffer, buffer.byteOffset, buffer.length / 4),
\* given by the elements it shows.
deserializeEmbedding(b) ==
  Elements([buffer |-> b.buffer, byteOffset |-> b.byteOffset,
            length |-> b.length \div 4])

NoReply == [op |-> "none"]

IdleTask ==
  [op |-> "none", pc |-> "idle", force |-> FALSE, files |-> <<>>, idx |-> 0,
   content |-> NoFile, started |-> 0, indexedFiles |-> <<>>, skippedFiles |-> <<>>,
   errors |-> <<>>, embeds |-> <<>>, result |-> "none", failedAt |-> "none",
   gate |-> "none", matched |-> {}]

(***************************************************************************)
(* Embedding provider                                                      *)
(***************************************************************************)
EmbedOps == {"embed", "embedBatch", "preload"}

IdleCaller == [op |-> "none", pc |-> "idle", awaiting |-> 0, via |-> "none",
               left |-> 0, vectors |-> 0, instance |-> 0]

\* initialize() without the initPromise memo: only the singleton is consulted.
initializeBranch_NoMemo ==
  IF embeddingPipeline # 0 THEN "ready" ELSE "own"

\* initialize(), from its entry to its first await: the synchronous decision
\* which promise the caller awaits.  "ready": the pipeline is set, return at
\* once; "shared": a promise is memoized, await it; "own": start the load,
\* memoize its promise, await it.
initializeBranch ==
  IF embeddingPipeline # 0 THEN "ready"
  ELSE IF initPromise # 0 THEN "shared"
  ELSE "own"

\* A caller enters embed(text), embedBatch(texts) or preload(): each starts
\* with `await initialize()`.
Call(c, op, n) ==
  /\ callers[c].pc = "idle"
  /\ LET br == initializeBranch IN
     /\ loads' = IF br = "own" THEN Append(loads, "pending") ELSE loads
     /\ initPromise' = IF br = "own" THEN Len(loads) + 1 ELSE initPromise
     /\ callers' = [callers EXCEPT ![c] =
          [op |-> op, pc |-> "awaitInit",
           awaiting |-> IF br = "ready" THEN 0 ELSE initPromise',
           via |-> br, left |-> IF op = "embedBatch" THEN n ELSE 0,
           vectors |-> 0, instance |-> 0]]
  /\ UNCHANGED <<embeddingPipeline, indexVars, searchVars>>

\* pipeline(...) resolves inside the load's async body: the singleton is set
\* and the load's promise fulfils.
LoadResolves(i) ==
  /\ i \in 1..Len(loads)
  /\ loads[i] = "pending"
  /\ embeddingPipeline' = i
  /\ loads' = [loads EXCEPT ![i] = "fulfilled"]
  /\ UNCHANGED <<initPromise, callers, indexVars, searchVars>>

\* pipeline(...) rejects (missing weights, unsupported environment): the
\* load's promise rejects; initPromise keeps naming it.
LoadRejects(i) ==
  /\ i \in 1..Len(loads)
  /\ loads[i] = "pending"
  /\ loads' = [loads EXCEPT ![i] = "rejected"]
  /\ UNCHANGED <<embeddingPipeline, initPromise, callers, indexVars, searchVars>>

\* An await that swallows the rejection (`await initPromise.catch(...)`).
AwaitedState_Swallow(c) ==
  IF callers[c].awaiting = 0 THEN "fulfilled"
  ELSE IF loads[callers[c].awaiting] = "pending" THEN "pending"
  ELSE "fulfilled"

\* State of the promise a caller's `await initialize()` hangs on.
AwaitedState(c) ==
  IF callers[c].awaiting = 0 THEN "fulfilled" ELSE loads[callers[c].awaiting]

\* `await initialize()` returns; then `if (!embeddingPipeline) throw`, and the
\* first pipeline invocation is issued (preload returns, an empty batch
\* returns its empty list).
InitReturns(c) ==
  /\ callers[c].pc = "awaitInit"
  /\ AwaitedState(c) = "fulfilled"
  /\ callers' = [callers EXCEPT ![c] =
       IF callers[c].op = "preload" THEN [@ EXCEPT !.pc = "returned"]
       ELSE IF embeddingPipeline = 0 THEN [@ EXCEPT !.pc = "failed"]
       ELSE IF callers[c].op = "embedBatch" /\ callers[c].left = 0
         THEN [@ EXCEPT !.pc = "returned", !.instance = embeddingPipeline]
       ELSE [@ EXCEPT !.pc = "run", !.instance = embeddingPipeline]]
  /\ UNCHANGED <<embeddingPipeline, initPromise, loads, indexVars, searchVars>>

\* `await initialize()` throws: the awaited promise rejected.
InitThrows(c) ==
  /\ callers[c].pc = "awaitInit"
  /\ AwaitedState(c) = "rejected"
  /\ callers' = [callers EXCEPT ![c].pc = "failed"]
  /\ UNCHANGED <<embeddingPipeline, initPromise, loads, indexVars, searchVars>>

\* One awaited pipeline invocation completes with a tensor: embed returns its
\* vector, embedBatch pushes one and goes on with the next text.
RunReturns(c) ==
  /\ callers[c].pc = "run"
  /\ callers' = [callers EXCEPT ![c] =
       IF callers[c].op = "embedBatch" /\ callers[c].left > 1
         THEN [@ EXCEPT !.left = @ - 1, !.vectors = @ + 1]
       ELSE [@ EXCEPT !.pc = "returned", !.left = 0, !.vectors = @ + 1]]
  /\ UNCHANGED <<embeddingPipeline, initPromise, loads, indexVars, searchVars>>

\* One awaited pipeline invocation throws: the call fails, a batch keeps
\* nothing.
RunThrows(c) ==
  /\ callers[c].pc = "run"
  /\ callers' = [callers EXCEPT ![c] = [@ EXCEPT !.pc = "failed", !.vectors = 0]]
  /\ UNCHANGED <<embeddingPipeline, initPromise, loads, indexVars, searchVars>>

\* The caller has its result or its exception; the slot takes the next call.
CallEnds(c) ==
  /\ callers[c].pc \in {"returned", "failed"}
  /\ callers' = [callers EXCEPT ![c] = IdleCaller]
  /\ UNCHANGED <<embeddingPipeline, initPromise, loads, indexVars, searchVars>>

InitEmbed ==
  /\ embeddingPipeline = 0
  /\ initPromise = 0
  /\ loads = <<>>
  /\ callers = [c \in Callers |-> IdleCaller]
  /\ projects = {}
  /\ fs = [p \in Paths |-> IF extname(p) \in TEXT_EXTENSIONS THEN NoFile ELSE BinaryContent]
  /\ db = [p \in Paths |-> NoRow]
  /\ fileIndex = <<>>
  /\ clock = 0
  /\ tasks = [t \in TaskIds |-> IdleTask]
  /\ patterns = <<>>
  /\ patternSeq = 0
  /\ reply = NoReply

NextEmbed ==
  \/ \E c \in Callers, op \in EmbedOps, n \in 0..MaxTexts : Call(c, op, n)
  \/ \E i \in 1..Len(loads) : LoadResolves(i)
  \/ \E i \in 1..Len(loads) : LoadRejects(i)
  \/ \E c \in Callers : InitReturns(c)
  \/ \E c \in Callers : InitThrows(c)
  \/ \E c \in Callers : RunReturns(c)
  \/ \E c \in Callers : RunThrows(c)
  \/ \E c \in Callers : CallEnds(c)

SpecEmbed == InitEmbed /\ [][NextEmbed]_vars

(***************************************************************************)
(* Claims on the embedding provider                                        *)
(***************************************************************************)

\* C1: under every interleaving of embed, embedBatch and preload calls the
\* model load is started at most once per process; a call arriving while the
\* load is in flight awaits that same load, and a call arriving after it
\* completed uses the instance that load set.
C1_SingleFlight ==
  /\ Len(loads) <= 1
  /\ \A c \in Callers :
       /\ callers[c].via \in {"own", "shared"} =>
            callers[c].awaiting = 1 /\ initPromise = 1
       /\ callers[c].via = "ready" => embeddingPipeline = 1
       /\ callers[c].instance # 0 => callers[c].instance = 1

\* C1 witness: one caller started the load, another arrived while it was in
\* flight and awaited it, and both now run on the instance of that one load.
C1_Witness ==
  \E c1, c2 \in Callers :
    /\ callers[c1].via = "own" /\ callers[c1].pc = "run"
    /\ callers[c2].via = "shared" /\ callers[c2].pc = "run"
    /\ callers[c1].instance = callers[c2].instance
    /\ Len(loads) = 1

LoadFailed == \E i \in 1..Len(loads) : loads[i] = "rejected"

\* C7: once the model load has failed, no embed, embedBatch or preload call
\* gets past initialize: none runs the pipeline, none returns, none holds a
\* vector; the calls that awaited the load and all later ones end failed.
C7_LoadFailureFailsAll ==
  LoadFailed =>
    /\ embeddingPipeline = 0
    /\ \A c \in Callers :
         /\ callers[c].pc \in {"idle", "awaitInit", "failed"}
         /\ callers[c].vectors = 0
         /\ callers[c].pc = "awaitInit" =>
              /\ callers[c].awaiting # 0
              /\ loads[callers[c].awaiting] = "rejected"

\* C7 witness: the load failed; the call that started it has failed and a
\* call that found the rejected promise memoized has failed too.
C7_Witness ==
  /\ LoadFailed
  /\ \E c1, c2 \in Callers :
       /\ callers[c1].via = "own" /\ callers[c1].pc = "failed"
       /\ callers[c2].via = "shared" /\ callers[c2].pc = "failed"
       /\ callers[c2].op = "embed"

(***************************************************************************)
(* Indexing coordinator                                                    *)
(***************************************************************************)
IndexOps == {"pm_index_files", "pm_index_file", "indexFileAfterWrite"}

\* findTextFiles(projectPath): the existing files with a text extension, in
\* directory order.
findTextFiles ==
  SelectSeq(PathOrder, LAMBDA p : fs[p] # NoFile /\ extname(p) \in TEXT_EXTENSIONS)

\* The paths whose row already carries the hash of the file's content now.
UpToDate ==
  {p \in Paths : fs[p] # NoFile /\ db[p] # NoRow
                 /\ db[p].content_hash = contentHash(fs[p])}

CurrentFile(tk) == tk.files[tk.idx]

\* The loop of pm_index_files moves to the next file, or the call returns
\* its aggregate {totalFiles, indexed, skipped, errors}.
NextFile(tk) ==
  IF tk.idx < Len(tk.files)
    THEN [tk EXCEPT !.idx = @ + 1, !.pc = "read", !.content = NoFile, !.gate = "none"]
    ELSE [tk EXCEPT !.pc = "done", !.result = "BATCH"]

\* A catch that lets the per-file error of a batch escape the loop.
FileFails_AbortBatch(tk, where) ==
  CASE tk.op = "pm_index_files" ->
         [tk EXCEPT !.pc = "raised", !.result = "RAISED", !.failedAt = where]
    [] tk.op = "pm_index_file" ->
         [tk EXCEPT !.pc = "done", !.result = "INDEX_FAILED", !.failedAt = where]
    [] OTHER ->
         [tk EXCEPT !.pc = "done", !.result = "VOID", !.failedAt = where]

\* Incremental entry points without their try/catch.
FileFails_Rethrow(tk, where) ==
  CASE tk.op = "pm_index_files" ->
         NextFile([tk EXCEPT !.errors = Append(@, CurrentFile(tk)),
                             !.failedAt = where])
    [] OTHER ->
         [tk EXCEPT !.pc = "raised", !.result = "RAISED", !.failedAt = where]

\* The catch blocks: pm_index_files pushes the error and goes on with the
\* next file; pm_index_file returns INDEX_FAILED; indexFileAfterWrite
\* swallows the error and returns.
FileFails(tk, where) ==
  CASE tk.op = "pm_index_files" ->
         NextFile([tk EXCEPT !.errors = Append(@, CurrentFile(tk)),
                             !.failedAt = where])
    [] tk.op = "pm_index_file" ->
         [tk EXCEPT !.pc = "done", !.result = "INDEX_FAILED", !.failedAt = where]
    [] OTHER ->
         [tk EXCEPT !.pc = "done", !.result = "VOID", !.failedAt = where]

\* The hash gate found the row up to date: skipped++ and continue, or the
\* {skipped: true, reason: 'File unchanged'} result.
FileSkipped(tk) ==
  IF tk.op = "pm_index_files"
    THEN NextFile([tk EXCEPT !.skippedFiles = Append(@, CurrentFile(tk))])
    ELSE [tk EXCEPT !.pc = "done", !.result = "SKIPPED",
                    !.skippedFiles = Append(@, CurrentFile(tk))]

\* A call that takes its catch branch although db.indexFile has stored the row.
FileIndexed_ThenFails(tk) == FileFails(tk, "store")

\* db.indexFile returned: indexed++, or {indexed: true, path}, or void.
FileIndexed(tk) ==
  CASE tk.op = "pm_index_files" ->
         NextFile([tk EXCEPT !.indexedFiles = Append(@, CurrentFile(tk))])
    [] tk.op = "pm_index_file" ->
         [tk EXCEPT !.pc = "done", !.result = "INDEXED",
                    !.indexedFiles = Append(@, CurrentFile(tk))]
    [] OTHER ->
         [tk EXCEPT !.pc = "done", !.result = "VOID",
                    !.indexedFiles = Append(@, CurrentFile(tk))]

\* The hash gate of pm_index_files and pm_index_file:
\* existing && existing.content_hash === contentHash && !force.
\* indexFileAfterWrite has none.
HashGateSkips(tk, existing, hash) ==
  /\ tk.op \in {"pm_index_files", "pm_index_file"}
  /\ existing # NoRow
  /\ existing.content_hash = hash
  /\ ~tk.force

\* initialize() run to completion inside one step of an indexing call:
\* ok tells whether `await initialize()` returned (TRUE) or threw (FALSE).
Initialize(ok) ==
  LET br == initializeBranch IN
  /\ br = "ready" => ok /\ UNCHANGED modelVars
  /\ br = "shared" => /\ ok = (loads[initPromise] = "fulfilled")
                      /\ UNCHANGED modelVars
  /\ br = "own" =>
       /\ loads' = Append(loads, IF ok THEN "fulfilled" ELSE "rejected")
       /\ initPromise' = Len(loads) + 1
       /\ embeddingPipeline' = IF ok THEN Len(loads) + 1 ELSE 0

\* ON CONFLICT(project_id, path) DO UPDATE that leaves content_preview alone.
upsertRow_KeepPreview(existing, ext, hash, preview, embedding, now) ==
  [file_type |-> ext, content_hash |-> hash,
   content_preview |-> IF existing = NoRow THEN preview
                       ELSE existing.content_preview,
   embedding |-> embedding, indexed_at |-> now]

\* ON CONFLICT(project_id, path) DO UPDATE that leaves indexed_at alone.
upsertRow_KeepStamp(existing, ext, hash, preview, embedding, now) ==
  [file_type |-> ext, content_hash |-> hash,
   content_preview |-> preview, embedding |-> embedding,
   indexed_at |-> IF existing = NoRow THEN now ELSE existing.indexed_at]

\* ProjectDatabase.indexFile: INSERT ... ON CONFLICT(project_id, path) DO
\* UPDATE SET every column, indexed_at = new Date().  The size and metadata
\* columns, which no operation reads back, are left out of the row.
upsertRow(existing, ext, hash, preview, embedding, now) ==
  [file_type |-> ext, content_hash |-> hash,
   content_preview |-> preview, embedding |-> embedding,
   indexed_at |-> now]

\* pm_index_files is called: getProject, then `await preload()`.
StartIndexFiles(t, reindex) ==
  /\ tasks[t].pc = "idle"
  /\ clock < MaxClock
  /\ clock' = clock + 1
  /\ tasks' = [tasks EXCEPT ![t] =
       IF ProjectId \notin projects
         THEN [IdleTask EXCEPT !.op = "pm_index_files", !.pc = "done",
                               !.result = "PROJECT_NOT_FOUND",
                               !.started = clock']
         ELSE [IdleTask EXCEPT !.op = "pm_index_files", !.pc = "preload",
                               !.force = reindex, !.started = clock',
                               !.matched = UpToDate \cap
                                 {p \in Paths : extname(p) \in TEXT_EXTENSIONS}]]
  /\ UNCHANGED <<embedVars, projects, fs, db, fileIndex, searchVars>>

\* pm_index_file is called: getProject, existsSync, the extension check,
\* then `await readFile`.
StartIndexFile(t, p, force) ==
  /\ tasks[t].pc = "idle"
  /\ clock < MaxClock
  /\ clock' = clock + 1
  /\ tasks' = [tasks EXCEPT ![t] =
       LET tk == [IdleTask EXCEPT !.op = "pm_index_file", !.started = clock',
                                  !.force = force, !.files = <<p>>, !.idx = 1]
       IN IF ProjectId \notin projects
            THEN [tk EXCEPT !.pc = "done", !.result = "PROJECT_NOT_FOUND"]
          ELSE IF fs[p] = NoFile
            THEN [tk EXCEPT !.pc = "done", !.result = "FILE_NOT_FOUND"]
          ELSE IF extname(p) \notin TEXT_EXTENSIONS
            THEN [tk EXCEPT !.pc = "done", !.result = "NOT_TEXT",
                            !.skippedFiles = <<p>>]
          ELSE [tk EXCEPT !.pc = "read", !.matched = UpToDate \cap {p}]]
  /\ UNCHANGED <<embedVars, projects, fs, db, fileIndex, searchVars>>

\* indexFileAfterWrite is called: getProject, the extension check,
\* existsSync (each a silent return), then `await readFile`.
StartIndexFileAfterWrite(t, p) ==
  /\ tasks[t].pc = "idle"
  /\ clock < MaxClock
  /\ clock' = clock + 1
  /\ tasks' = [tasks EXCEPT ![t] =
       LET tk == [IdleTask EXCEPT !.op = "indexFileAfterWrite",
                                  !.started = clock', !.files = <<p>>, !.idx = 1]
       IN IF \/ ProjectId \notin projects
             \/ extname(p) \notin TEXT_EXTENSIONS
             \/ fs[p] = NoFile
            THEN [tk EXCEPT !.pc = "done", !.result = "VOID"]
            ELSE [tk EXCEPT !.pc = "read", !.matched = UpToDate \cap {p}]]
  /\ UNCHANGED <<embedVars, projects, fs, db, fileIndex, searchVars>>

\* `await preload()`.  In pm_index_files it stands before the loop and outside
\* every try: when it throws, the call throws.  In pm_index_file and
\* indexFileAfterWrite it stands inside the try, before embed().
Preload(t) ==
  /\ tasks[t].pc = "preload"
  /\ \E ok \in BOOLEAN :
       /\ Initialize(ok)
       /\ tasks' = [tasks EXCEPT ![t] =
            IF tasks[t].op = "pm_index_files"
              THEN IF ok THEN [@ EXCEPT !.pc = "scan"]
                   ELSE [@ EXCEPT !.pc = "raised", !.result = "RAISED",
                                  !.failedAt = "preload"]
              ELSE IF ok THEN [@ EXCEPT !.pc = "embed"]
                   ELSE FileFails(@, "preload")]
  /\ UNCHANGED <<callers, projects, fs, db, fileIndex, clock, searchVars>>

\* pm_index_files enumerates the project's text files.
Scan(t) ==
  /\ tasks[t].pc = "scan"
  /\ tasks' = [tasks EXCEPT ![t] =
       LET found == findTextFiles IN
       IF found = <<>> THEN [@ EXCEPT !.pc = "done", !.result = "BATCH"]
       ELSE [@ EXCEPT !.files = found, !.idx = 1, !.pc = "read"]]
  /\ UNCHANGED <<embedVars, projects, fs, db, fileIndex, clock, searchVars>>

\* `await readFile(filePath)` completes; the hash is computed, the existing
\* row is fetched and the gate decides.
Read(t) ==
  /\ tasks[t].pc = "read"
  /\ LET tk == tasks[t]
         f == CurrentFile(tk)
         hash == contentHash(fs[f])
         seen == [tk EXCEPT !.content = fs[f],
                            !.gate = IF db[f] = NoRow THEN "new"
                                     ELSE IF db[f].content_hash = hash THEN "same"
                                     ELSE "differs"]
     IN tasks' = [tasks EXCEPT ![t] =
          IF fs[f] = NoFile THEN FileFails(tk, "read")
          ELSE IF HashGateSkips(tk, db[f], hash) THEN FileSkipped(seen)
          ELSE IF tk.op = "pm_index_files" THEN [seen EXCEPT !.pc = "embed"]
          ELSE [seen EXCEPT !.pc = "preload"]]
  /\ UNCHANGED <<embedVars, projects, fs, db, fileIndex, clock, searchVars>>

\* `await embed(content)`: initialize, then one pipeline invocation, which
\* yields the vector or throws.
Embed(t) ==
  /\ tasks[t].pc = "embed"
  /\ \E ok \in BOOLEAN, ran \in BOOLEAN :
       /\ Initialize(ok)
       /\ tasks' = [tasks EXCEPT ![t] =
            LET tk == [tasks[t] EXCEPT !.embeds = Append(@, CurrentFile(tasks[t]))]
            IN IF ok /\ ran THEN [tk EXCEPT !.pc = "stat"]
               ELSE FileFails(tk, "embed")]
  /\ UNCHANGED <<callers, projects, fs, db, fileIndex, clock, searchVars>>

\* `await stat(filePath)` completes and db.indexFile upserts the row.  The
\* insert fails on the foreign key when the project row is gone.
StatAndStore(t) ==
  /\ tasks[t].pc = "stat"
  /\ LET tk == tasks[t]
         f == CurrentFile(tk)
         ok == fs[f] # NoFile /\ ProjectId \in projects
     IN /\ tasks' = [tasks EXCEPT ![t] =
             IF fs[f] = NoFile THEN FileFails(tk, "stat")
             ELSE IF ProjectId \notin projects THEN FileFails(tk, "store")
             ELSE FileIndexed(tk)]
        /\ db' = IF ok
             THEN [db EXCEPT ![f] =
                    upsertRow(db[f], extname(f), contentHash(tk.content),
                              contentPreview(tk.content),
                              serializeEmbedding(embed(tk.content)), clock)]
             ELSE db
  /\ UNCHANGED <<embedVars, projects, fs, fileIndex, clock, searchVars>>

\* The caller has the result (or the exception) of the call.
TaskEnds(t) ==
  /\ tasks[t].pc \in {"done", "raised"}
  /\ tasks' = [tasks EXCEPT ![t] = IdleTask]
  /\ UNCHANGED <<embedVars, projects, fs, db, fileIndex, clock, searchVars>>

(***************************************************************************)
(* The environment of the indexing coordinator                             *)
(***************************************************************************)
\* A running call no longer counts p among the files it found up to date.
Touched(S) == [t \in DOMAIN tasks |-> [tasks[t] EXCEPT !.matched = @ \ S]]

\* A file is created or overwritten with other content.
WriteFile(p, c) ==
  /\ extname(p) \in TEXT_EXTENSIONS
  /\ fs[p] # c
  /\ fs' = [fs EXCEPT ![p] = c]
  /\ tasks' = Touched({p})
  /\ UNCHANGED <<embedVars, projects, db, fileIndex, clock, searchVars>>

\* A file is removed.
DeleteFile(p) ==
  /\ extname(p) \in TEXT_EXTENSIONS
  /\ fs[p] # NoFile
  /\ fs' = [fs EXCEPT ![p] = NoFile]
  /\ tasks' = Touched({p})
  /\ UNCHANGED <<embedVars, projects, db, fileIndex, clock, searchVars>>

\* A DELETE FROM projects that leaves the rows of the other tables alone.
DeleteProject_NoCascade ==
  /\ ProjectId \in projects
  /\ projects' = projects \ {ProjectId}
  /\ UNCHANGED <<embedVars, fs, db, fileIndex, clock, tasks, searchVars>>

\* A DELETE FROM projects whose cascade takes every pattern along.
DeleteProject_WipePatterns ==
  /\ ProjectId \in projects
  /\ projects' = projects \ {ProjectId}
  /\ db' = [p \in Paths |-> NoRow]
  /\ fileIndex' = SelectSeq(fileIndex, LAMBDA r : r.project_id # ProjectId)
  /\ patterns' = <<>>
  /\ tasks' = Touched(Paths)
  /\ UNCHANGED <<embedVars, fs, clock, patternSeq, reply>>

\* ProjectDatabase.createProject
CreateProject ==
  /\ ProjectId \notin projects
  /\ projects' = projects \cup {ProjectId}
  /\ UNCHANGED <<embedVars, fs, db, fileIndex, clock, tasks, searchVars>>

\* ProjectDatabase.deleteProject: the file_index and patterns rows of the
\* project go with it (FOREIGN KEY ... ON DELETE CASCADE, foreign_keys = ON).
DeleteProject ==
  /\ ProjectId \in projects
  /\ projects' = projects \ {ProjectId}
  /\ db' = [p \in Paths |-> NoRow]
  /\ fileIndex' = SelectSeq(fileIndex, LAMBDA r : r.project_id # ProjectId)
  /\ patterns' = SelectSeq(patterns, LAMBDA r : r.projectId # ProjectId)
  /\ tasks' = Touched(Paths)
  /\ UNCHANGED <<embedVars, fs, clock, patternSeq, reply>>

\* The server process is restarted: the module-level singletons start null
\* again and no call is in flight; the database file and the files persist.
Restart ==
  /\ embeddingPipeline' = 0
  /\ initPromise' = 0
  /\ loads' = <<>>
  /\ tasks' = [t \in DOMAIN tasks |-> IdleTask]
  /\ \/ initPromise # 0
     \/ \E t \in DOMAIN tasks : tasks[t].pc # "idle"
  /\ UNCHANGED <<callers, projects, fs, db, fileIndex, clock, searchVars>>

Init == InitEmbed

Next ==
  \/ \E t \in TaskIds, reindex \in BOOLEAN : StartIndexFiles(t, reindex)
  \/ \E t \in TaskIds, p \in Paths, force \in BOOLEAN : StartIndexFile(t, p, force)
  \/ \E t \in TaskIds, p \in Paths : StartIndexFileAfterWrite(t, p)
  \/ \E t \in TaskIds : Preload(t)
  \/ \E t \in TaskIds : Scan(t)
  \/ \E t \in TaskIds : Read(t)
  \/ \E t \in TaskIds : Embed(t)
  \/ \E t \in TaskIds : StatAndStore(t)
  \/ \E t \in TaskIds : TaskEnds(t)
  \/ \E p \in Paths, c \in Contents : WriteFile(p, c)
  \/ \E p \in Paths : DeleteFile(p)
  \/ CreateProject
  \/ DeleteProject
  \/ Restart

Spec == Init /\ [][Next]_vars

(***************************************************************************)
(* Claims on the indexing coordinator                                      *)
(***************************************************************************)
Count(p, seq) == Cardinality({i \in 1..Len(seq) : seq[i] = p})
Finished(tk) == tk.pc \in {"done", "raised"}

\* What a finished call did with a file it found up to date when it was
\* called and that nobody touched since: reported skipped, no embed
\* invocation for it, its row (indexed_at included) as before the call.
LeftAlone(tk, p) ==
  /\ Count(p, tk.skippedFiles) = 1
  /\ Count(p, tk.embeds) = 0
  /\ db[p] # NoRow
  /\ db[p].content_hash = contentHash(fs[p])
  /\ db[p].indexed_at < tk.started

\* C2: when the row of (project, path) already carries the hash of the
\* file's content, pm_index_file with force=false and pm_index_files with
\* reindex=false report the file skipped, make no embedding invocation for
\* it and leave its row, indexed_at included, unchanged.
C2_UnchangedIsSkipped ==
  \A t \in TaskIds :
    LET tk == tasks[t] IN
    (tk.op \in {"pm_index_file", "pm_index_files"} /\ Finished(tk) /\ ~tk.force)
      => \A p \in tk.matched : LeftAlone(tk, p)

\* C2 holds of every call that returns: only the `await preload()` of
\* pm_index_files throwing (C5) keeps an unchanged file from being reported.
C2_HoldsOfReturnedCalls ==
  \A t \in TaskIds :
    LET tk == tasks[t] IN
    (tk.op \in {"pm_index_file", "pm_index_files"} /\ tk.pc = "done" /\ ~tk.force)
      => \A p \in tk.matched : LeftAlone(tk, p)

\* C3: indexFileAfterWrite makes no embedding invocation and no write when
\* the stored content_hash already equals the hash of the file's content.
C3_AfterWriteGated ==
  \A t \in TaskIds :
    LET tk == tasks[t] IN
    (tk.op = "indexFileAfterWrite" /\ Finished(tk))
      => \A p \in tk.matched :
           /\ Count(p, tk.embeds) = 0
           /\ db[p] # NoRow /\ db[p].indexed_at < tk.started

Outcomes(tk, p) ==
  Count(p, tk.indexedFiles) + Count(p, tk.skippedFiles) + Count(p, tk.errors)

\* C4: in pm_index_files no failure while reading, embedding or storing a
\* file aborts the batch: once the files are enumerated the call never
\* throws, the files before the current one each have exactly one outcome,
\* and when the call returns every enumerated file has exactly one of
\* indexed, skipped, error.
C4_BatchSurvivesFileFailure ==
  \A t \in TaskIds :
    LET tk == tasks[t] IN
    tk.op = "pm_index_files" =>
      /\ tk.pc = "raised" => tk.files = <<>> /\ tk.failedAt = "preload"
      /\ tk.pc \in {"read", "embed", "stat"} =>
           \A i \in 1..Len(tk.files) :
             Outcomes(tk, tk.files[i]) = (IF i < tk.idx THEN 1 ELSE 0)
      /\ (tk.pc = "done" /\ tk.result = "BATCH") =>
           /\ \A i \in 1..Len(tk.files) : Outcomes(tk, tk.files[i]) = 1
           /\ Len(tk.indexedFiles) + Len(tk.skippedFiles) + Len(tk.errors)
                = Len(tk.files)

\* C4 witness: a returned batch whose first file failed and whose second
\* file was indexed after it.
C4_Witness ==
  \E t \in TaskIds :
    /\ tasks[t].op = "pm_index_files" /\ tasks[t].pc = "done"
    /\ tasks[t].files = <<"a.ts", "b.ts">>
    /\ tasks[t].errors = <<"a.ts">>
    /\ tasks[t].indexedFiles = <<"b.ts">>

\* C5: pm_index_files on a registered project always returns its aggregate
\* result; no failure, the model failing to load included, is raised.
C5_BatchNeverRaises ==
  \A t \in TaskIds :
    tasks[t].op = "pm_index_files" => tasks[t].pc # "raised"

\* C6: pm_index_file and indexFileAfterWrite never raise: after a failure of
\* the read, the model load, the embedding, the stat or the upsert,
\* pm_index_file has returned INDEX_FAILED and indexFileAfterWrite has
\* returned normally.
C6_IncrementalNeverRaises ==
  \A t \in TaskIds :
    LET tk == tasks[t] IN
    tk.op \in {"pm_index_file", "indexFileAfterWrite"} =>
      /\ tk.pc # "raised"
      /\ tk.failedAt # "none" =>
           /\ tk.pc = "done"
           /\ tk.result = (IF tk.op = "pm_index_file" THEN "INDEX_FAILED"
                           ELSE "VOID")

\* C6 witness: the model could not be loaded under indexFileAfterWrite, which
\* has returned all the same.
C6_Witness ==
  \E t \in TaskIds :
    /\ tasks[t].op = "indexFileAfterWrite"
    /\ tasks[t].pc = "done"
    /\ tasks[t].failedAt = "preload"

Queries == {"token parsing", "button rendering"}
LimitValues == {-1, 1, 10}
MinValues == {0, 5000, 9920}
FileTypeFilters == {<<>>, <<".md">>}
PatternProjects == {"demo", "svc-a"}
NullBlob == [null |-> TRUE]
Thrown == [threw |-> TRUE]
Returned(v) == [threw |-> FALSE, value |-> v]

RECURSIVE Dot(_, _)
Dot(a, b) == IF a = <<>> THEN 0 ELSE Head(a) * Head(b) + Dot(Tail(a), Tail(b))

\* cosineSimilarity of embeddings.ts: throws on unequal lengths, else the
\* plain dot product (the vectors are taken to be normalized).
cosineSimilarity(a, b) == IF Len(a) # Len(b) THEN Thrown ELSE Returned(Dot(a, b))

\* Array.prototype.slice(0, end): a negative end counts from the back.
Slice0(seq, end) ==
  LET n == Len(seq)
      k == IF end < 0 THEN (IF n + end < 0 THEN 0 ELSE n + end)
           ELSE (IF end > n THEN n ELSE end)
  IN SubSeq(seq, 1, k)

\* Array.prototype.sort((a, b) => b.similarity - a.similarity): stable,
\* descending; here by insertion from the left.
RECURSIVE InsertDesc(_, _)
InsertDesc(sorted, x) ==
  IF sorted = <<>> THEN <<x>>
  ELSE IF Head(sorted).similarity >= x.similarity
    THEN <<Head(sorted)>> \o InsertDesc(Tail(sorted), x)
    ELSE <<x>> \o sorted

RECURSIVE SortDesc(_)
SortDesc(seq) ==
  IF seq = <<>> THEN <<>>
  ELSE InsertDesc(SortDesc(SubSeq(seq, 1, Len(seq) - 1)), seq[Len(seq)])

\* findSimilar: score every candidate, keep similarity >= minSimilarity,
\* sort descending, slice(0, limit).  Thrown when a score throws.
findSimilar(queryEmbedding, candidates, limit, minSimilarity) ==
  LET score(c) == cosineSimilarity(queryEmbedding, c.embedding)
  IN IF \E i \in 1..Len(candidates) : score(candidates[i]).threw THEN Thrown
     ELSE Returned(Slice0(SortDesc(SelectSeq(
            [i \in 1..Len(candidates) |->
               [id |-> candidates[i].id,
                similarity |-> score(candidates[i]).value]],
            LAMBDA r : r.similarity >= minSimilarity)), limit))

\* Math.round(x * 100) / 100: to the nearest hundredth, halves upward.
Round2(x) == ((x + 50) \div 100) * 100

\* db.getIndexedFiles(project): the project's rows, in table order.
getIndexedFiles ==
  LET present == SelectSeq(PathOrder, LAMBDA p : db[p] # NoRow)
  IN [i \in 1..Len(present) |-> [path |-> present[i], row |-> db[present[i]]]]

\* f.path.endsWith(ext), for ext a whole extension.
endsWith(p, ext) == extname(p) = ext

\* The candidates of search_semantic: rows with an embedding, then those
\* whose path ends with one of fileTypes when fileTypes is given.
searchCandidates(fileTypes) ==
  LET withEmbedding == SelectSeq(getIndexedFiles,
                                 LAMBDA f : f.row.embedding # NullBlob)
  IN IF Len(fileTypes) > 0
       THEN SelectSeq(withEmbedding,
              LAMBDA f : \E i \in 1..Len(fileTypes) : endsWith(f.path, fileTypes[i]))
       ELSE withEmbedding

\* The result list of search_semantic from findSimilar's matches.
searchResults(similar) ==
  [i \in 1..Len(similar) |->
     [path |-> similar[i].id,
      relevance |-> Round2(similar[i].similarity),
      preview |-> <<"head200", db[similar[i].id].content_preview>>]]

\* A reply of success with no results where the code answers
\* NO_INDEXED_FILES.
NoCandidates_EmptySuccess(call) == call @@ [outcome |-> "success"]

\* The reply of search_semantic when no candidate is left.
NoCandidates(call) == call @@ [outcome |-> "NO_INDEXED_FILES"]

\* search_semantic(query, project, fileTypes, limit, minRelevance); embedded
\* tells whether `await embed(query)` returned or threw.  The reply keeps
\* the arguments of the call next to its outcome.
search_semantic(query, project, fileTypes, limit, minRelevance, embedded) ==
  LET call == [op |-> "search_semantic", query |-> query, limit |-> limit,
               min |-> minRelevance, results |-> <<>>, project |-> project,
               fileTypes |-> fileTypes, embedded |-> embedded]
      candidates == searchCandidates(fileTypes)
      similar == findSimilar(EmbeddingOf(query),
                   [i \in 1..Len(candidates) |->
                      [id |-> candidates[i].path,
                       embedding |-> deserializeEmbedding(candidates[i].row.embedding)]],
                   limit, minRelevance)
  IN IF project \notin projects
       THEN call @@ [outcome |-> "PROJECT_NOT_FOUND"]
     ELSE IF Len(candidates) = 0
       THEN NoCandidates(call)
     ELSE IF ~embedded \/ similar.threw
       THEN call @@ [outcome |-> "RAISED"]
     ELSE [call EXCEPT !.results = searchResults(similar.value)]
          @@ [outcome |-> "success"]

\* Candidates without the exclusion of currentProject.
suggestCandidates_NoExclusion(currentProject, includeCurrentProject) ==
  SelectSeq(patterns, LAMBDA r : r.problemEmbedding # NullBlob)

\* The candidates of suggest_patterns: patterns with an embedding, without
\* those of currentProject unless includeCurrentProject ("" : not given).
suggestCandidates(currentProject, includeCurrentProject) ==
  LET withEmbedding == SelectSeq(patterns, LAMBDA r : r.problemEmbedding # NullBlob)
  IN IF currentProject # "" /\ ~includeCurrentProject
       THEN SelectSeq(withEmbedding, LAMBDA r : r.projectId # currentProject)
       ELSE withEmbedding

PatternById(id) ==
  CHOOSE r \in {patterns[i] : i \in 1..Len(patterns)} : r.id = id

\* suggest_patterns(problem, currentProject, limit, minConfidence,
\* includeCurrentProject): everything after the candidate check runs inside
\* the try, so a failed embed yields SUGGESTION_ERROR.
suggest_patterns(problem, currentProject, limit, minConfidence, includeCurrentProject, embedded) ==
  LET call == [op |-> "suggest_patterns", query |-> problem, limit |-> limit,
               min |-> minConfidence, results |-> <<>>,
               currentProject |-> currentProject,
               includeCurrentProject |-> includeCurrentProject,
               embedded |-> embedded, seen |-> patternSeq]
      candidates == suggestCandidates(currentProject, includeCurrentProject)
      similar == findSimilar(EmbeddingOf(problem),
                   [i \in 1..Len(candidates) |->
                      [id |-> candidates[i].id,
                       embedding |-> deserializeEmbedding(candidates[i].problemEmbedding)]],
                   limit, minConfidence)
  IN IF Len(candidates) = 0
       THEN call @@ [outcome |-> "success_no_patterns"]
     ELSE IF ~embedded \/ similar.threw
       THEN call @@ [outcome |-> "SUGGESTION_ERROR"]
     ELSE [call EXCEPT !.results =
             [i \in 1..Len(similar.value) |->
                [patternId |-> similar.value[i].id,
                 project |-> PatternById(similar.value[i].id).projectId,
                 confidence |-> Round2(similar.value[i].similarity),
                 problem |-> PatternById(similar.value[i].id).problem]]]
          @@ [outcome |-> "success"]

\* Whether the call reaches embed(): only then is initialize() entered.
SearchEmbeds(project, fileTypes) ==
  project \in projects /\ Len(searchCandidates(fileTypes)) > 0

\* A search_semantic call, from request to reply.
Search(query, project, fileTypes, limit, minRelevance) ==
  /\ \E ok \in BOOLEAN, ran \in BOOLEAN :
       /\ IF SearchEmbeds(project, fileTypes)
            THEN Initialize(ok)
            ELSE ok /\ ran /\ UNCHANGED modelVars
       /\ ok \/ ran
       /\ reply' = search_semantic(query, project, fileTypes, limit,
                                   minRelevance, ok /\ ran)
  /\ UNCHANGED <<callers, indexVars, patterns, patternSeq>>

\* A suggest_patterns call, from request to reply; preload() and embed()
\* both go through initialize().
Suggest(problem, currentProject, limit, minConfidence, includeCurrentProject) ==
  /\ \E ok \in BOOLEAN, ran \in BOOLEAN :
       /\ IF Len(suggestCandidates(currentProject, includeCurrentProject)) > 0
            THEN Initialize(ok)
            ELSE ok /\ ran /\ UNCHANGED modelVars
       /\ ok \/ ran
       /\ reply' = suggest_patterns(problem, currentProject, limit,
                                    minConfidence, includeCurrentProject, ok /\ ran)
  /\ UNCHANGED <<callers, indexVars, patterns, patternSeq>>

\* The largest r in lo..hi with r * r <= x.
RECURSIVE SqrtBetween(_, _, _)
SqrtBetween(x, lo, hi) ==
  IF lo >= hi THEN lo
  ELSE LET mid == (lo + hi + 1) \div 2
       IN IF mid * mid <= x THEN SqrtBetween(x, mid, hi)
                            ELSE SqrtBetween(x, lo, mid - 1)

\* cosineSimilarity of database.ts: 0 on unequal lengths or a zero vector,
\* else dot / (|a| |b|), here in ten-thousandths and rounded down.
dbCosineSimilarity(a, b) ==
  IF Len(a) # Len(b) THEN 0
  ELSE LET denominator == SqrtBetween(Dot(a, a) * Dot(b, b), 0, Dot(a, a) + Dot(b, b))
       IN IF denominator = 0 THEN 0 ELSE (Dot(a, b) * 10000) \div denominator

\* ProjectDatabase.searchFilesByEmbedding(projectId, queryEmbedding, limit):
\* the rows with an embedding, scored, sorted by descending score, sliced.
searchFilesByEmbedding(queryEmbedding, limit) ==
  LET files == SelectSeq(getIndexedFiles, LAMBDA f : f.row.embedding # NullBlob)
      scored == [i \in 1..Len(files) |->
                   [id |-> files[i].path,
                    similarity |-> dbCosineSimilarity(
                                     deserializeEmbedding(queryEmbedding),
                                     deserializeEmbedding(files[i].row.embedding))]]
      top == Slice0(SortDesc(scored), limit)
  IN [i \in 1..Len(top) |-> [path |-> top[i].id, score |-> top[i].similarity]]

\* A searchFilesByEmbedding call with the vector of a query text.
SearchByEmbedding(query, project, limit) ==
  /\ reply' = [op |-> "searchFilesByEmbedding", query |-> query, limit |-> limit,
               min |-> 0, project |-> project, fileTypes |-> <<>>,
               embedded |-> TRUE, outcome |-> "success",
               results |-> searchFilesByEmbedding(
                             serializeEmbedding(embed(query)), limit)]
  /\ UNCHANGED <<embedVars, indexVars, patterns, patternSeq>>

\* Rows as the indexing coordinator writes them, one written before the
\* embedding column was filled, and one whose vector is of another model.
StoredRows(p) ==
  {upsertRow(NoRow, extname(p), contentHash(c), contentPreview(c),
             serializeEmbedding(embed(c)), 1) : c \in Contents}
  \cup {upsertRow(NoRow, extname(p), contentHash("parses tokens"),
                  contentPreview("parses tokens"), NullBlob, 1)}
  \cup {upsertRow(NoRow, extname(p), contentHash("parses tokens"),
                  contentPreview("parses tokens"),
                  serializeEmbedding(Float32Array(<<98, 20, 0>>)), 1)}

PatternRows ==
  {[projectId |-> "demo", problem |-> "parses tokens",
    problemEmbedding |-> serializeEmbedding(embed("parses tokens"))],
   [projectId |-> "svc-a", problem |-> "renders a button",
    problemEmbedding |-> serializeEmbedding(embed("renders a button"))]}

RECURSIVE SeqsUpTo(_, _)
SeqsUpTo(S, n) ==
  IF n = 0 THEN {<<>>}
  ELSE LET shorter == SeqsUpTo(S, n - 1)
       IN shorter \cup {Append(q, x) : q \in {r \in shorter : Len(r) = n - 1}, x \in S}

\* The state a search meets: an index of the project's text files, or a
\* pattern store, as earlier calls left them.
InitSearch ==
  /\ embeddingPipeline = 0
  /\ initPromise = 0
  /\ loads = <<>>
  /\ callers = [c \in Callers |-> IdleCaller]
  /\ fs = [p \in Paths |-> IF extname(p) \in TEXT_EXTENSIONS THEN NoFile ELSE BinaryContent]
  /\ fileIndex = <<>>
  /\ clock = 1
  /\ tasks = [t \in TaskIds |-> IdleTask]
  /\ reply = NoReply
  /\ \/ /\ projects = {}
        /\ db = [p \in Paths |-> NoRow]
        /\ patterns = <<>>
     \/ /\ projects = PatternProjects
        /\ db \in [Paths -> {NoRow} \cup UNION {StoredRows(p) : p \in Paths}]
        /\ \A p \in Paths : db[p] # NoRow =>
             extname(p) \in TEXT_EXTENSIONS /\ db[p] \in StoredRows(p)
        /\ patterns = <<>>
     \/ /\ projects = PatternProjects
        /\ db = [p \in Paths |-> NoRow]
        /\ \E rows \in SeqsUpTo(PatternRows, MaxPatterns) :
             patterns = [i \in 1..Len(rows) |-> rows[i] @@ [id |-> i]]
  /\ patternSeq = Len(patterns)

NextSearch ==
  \/ \E q \in Queries, ft \in FileTypeFilters, l \in LimitValues, m \in MinValues :
       Search(q, ProjectId, ft, l, m)
  \/ \E q \in Queries, cp \in {"", ProjectId}, l \in LimitValues,
        m \in MinValues, inc \in BOOLEAN :
       Suggest(q, cp, l, m, inc)
  \/ \E q \in Queries, l \in LimitValues : SearchByEmbedding(q, ProjectId, l)

SpecSearch == InitSearch /\ [][NextSearch]_vars

(***************************************************************************)
(* Claims on the retrieval engine                                          *)
(***************************************************************************)

\* C9: for every index state, query, minRelevance and every limit a caller
\* can pass, search_semantic returns at most limit results (no results at
\* all when the limit is below one).
C9_AtMostLimit ==
  (reply.op = "search_semantic" /\ reply.outcome = "success")
    => Len(reply.results) <= (IF reply.limit < 0 THEN 0 ELSE reply.limit)

\* C10: every relevance search_semantic reports (rounded to two decimals) is
\* at least the minRelevance passed in, and every confidence
\* suggest_patterns reports is at least minConfidence.
C10_ReportedAboveFloor ==
  /\ (reply.op = "search_semantic" /\ reply.outcome = "success")
       => \A i \in 1..Len(reply.results) : reply.results[i].relevance >= reply.min
  /\ (reply.op = "suggest_patterns" /\ reply.outcome = "success")
       => \A i \in 1..Len(reply.results) : reply.results[i].confidence >= reply.min

\* The rows search_semantic could rank for the fileTypes of the reply: those
\* of the project with a vector and, if fileTypes is given, a listed extension.
Eligible ==
  {p \in Paths : /\ db[p] # NoRow
                 /\ db[p].embedding # NullBlob
                 /\ (reply.fileTypes # <<>> =>
                       \E i \in 1..Len(reply.fileTypes) : extname(p) = reply.fileTypes[i])}

\* An eligible row whose stored vector is not of the query's dimension.
Mismatched ==
  {p \in Eligible : db[p].embedding.length # 4 * Len(EmbeddingOf(reply.query))}

\* C11 (as claimed): PROJECT_NOT_FOUND exactly when the project is not
\* registered; otherwise NO_INDEXED_FILES exactly when no row is an eligible
\* candidate; otherwise success.
C11_ThreeOutcomes ==
  reply.op = "search_semantic" =>
    /\ reply.outcome = "PROJECT_NOT_FOUND" <=> reply.project \notin projects
    /\ reply.outcome = "NO_INDEXED_FILES" <=>
         (reply.project \in projects /\ Eligible = {})
    /\ reply.outcome = "success" <=>
         (reply.project \in projects /\ Eligible # {})

\* C11 (amended): the same for the two typed failures; with a registered
\* project and an eligible candidate the call succeeds exactly when the
\* query was embedded and every candidate vector has the query's dimension
\* (the list being empty when no score reaches minRelevance), and otherwise
\* it ends by the exception of embed or of cosineSimilarity.
C11_OutcomesOfSearch ==
  reply.op = "search_semantic" =>
    /\ reply.outcome \in {"PROJECT_NOT_FOUND", "NO_INDEXED_FILES", "success", "RAISED"}
    /\ reply.outcome = "PROJECT_NOT_FOUND" <=> reply.project \notin projects
    /\ reply.outcome = "NO_INDEXED_FILES" <=>
         (reply.project \in projects /\ Eligible = {})
    /\ reply.outcome = "success" <=>
         (reply.project \in projects /\ Eligible # {}
            /\ reply.embedded /\ Mismatched = {})
    /\ reply.outcome = "RAISED" <=>
         (reply.project \in projects /\ Eligible # {}
            /\ (~reply.embedded \/ Mismatched # {}))
    /\ (reply.outcome = "success"
          /\ \A p \in Eligible :
               Dot(EmbeddingOf(reply.query), db[p].embedding.buffer) < reply.min)
         => reply.results = <<>>

\* A search over eligible candidates of which none reaches minRelevance
\* has answered success with an empty list.
C11_Witness ==
  /\ reply.op = "search_semantic"
  /\ reply.outcome = "success"
  /\ reply.results = <<>>
  /\ reply.limit > 0
  /\ Eligible # {}

\* The similarity of the reply's query to the stored vector of row p.
Score(p) == Dot(EmbeddingOf(reply.query), db[p].embedding.buffer)

\* The eligible rows that reach the floor of the reply.
Qualifying == {p \in Eligible : Score(p) >= reply.min}

\* The place of p in the enumeration of the rows.
Place(p) == CHOOSE i \in 1..Len(PathOrder) : PathOrder[i] = p

\* p is ranked before q: higher score, or equal score and enumerated first.
RankedBefore(p, q) ==
  \/ Score(p) > Score(q)
  \/ Score(p) = Score(q) /\ Place(p) < Place(q)

\* results is the first n entries of the qualifying rows by rank.
IsTopOfRanking(results, n) ==
  /\ Len(results) = (IF n < Cardinality(Qualifying) THEN n ELSE Cardinality(Qualifying))
  /\ \A i \in 1..Len(results) : results[i].path \in Qualifying
  /\ \A i, j \in 1..Len(results) :
       i < j => RankedBefore(results[i].path, results[j].path)
  /\ \A p \in Qualifying :
       (\A i \in 1..Len(results) : results[i].path # p)
         => \A i \in 1..Len(results) : RankedBefore(results[i].path, p)

\* C12: a successful search_semantic returns the first limit entries of the
\* candidates with similarity >= minRelevance, by descending similarity and,
\* among equal scores, in enumeration order; so no candidate left out
\* outranks a returned one and the list is determined by index and query.
C12_RankedPrefix ==
  (reply.op = "search_semantic" /\ reply.outcome = "success")
    => IsTopOfRanking(reply.results, IF reply.limit < 0 THEN 0 ELSE reply.limit)

\* The same for the calls whose limit is not negative.
C12_HoldsForNaturalLimits ==
  (reply.op = "search_semantic" /\ reply.outcome = "success" /\ reply.limit >= 0)
    => IsTopOfRanking(reply.results, reply.limit)

\* C13 (as claimed): suggest_patterns called with currentProject = P never
\* returns a pattern whose origin project is P.
C13_NeverOwnProject ==
  (reply.op = "suggest_patterns" /\ reply.currentProject # "")
    => \A i \in 1..Len(reply.results) :
         reply.results[i].project # reply.currentProject

\* C13 (amended): suggest_patterns called with currentProject = P and
\* includeCurrentProject false (its default) never returns a pattern whose
\* origin project is P, whatever patterns are stored and in whatever order.
C13_NeverOwnProjectUnlessIncluded ==
  (reply.op = "suggest_patterns" /\ reply.currentProject # ""
     /\ ~reply.includeCurrentProject)
    => \A i \in 1..Len(reply.results) :
         /\ reply.results[i].project # reply.currentProject
         /\ \E k \in 1..Len(patterns) :
              /\ patterns[k].id = reply.results[i].patternId
              /\ patterns[k].projectId # reply.currentProject

\* A suggestion list was returned for currentProject = P while a pattern of
\* P that reaches minConfidence is stored.
C13_Witness ==
  /\ reply.op = "suggest_patterns"
  /\ reply.outcome = "success"
  /\ reply.currentProject # ""
  /\ ~reply.includeCurrentProject
  /\ reply.limit > Len(patterns)
  /\ Len(reply.results) > 0
  /\ \E k \in 1..Len(patterns) :
       /\ patterns[k].projectId = reply.currentProject
       /\ Dot(EmbeddingOf(reply.query), patterns[k].problemEmbedding.buffer) >= reply.min

\* The replies that are a ToolResult with success: true.  The reply of
\* suggest_patterns without candidates is one: {success: true, data:
\* {message, suggestions: []}}.
SuccessOutcomes == {"success", "success_no_patterns"}

\* The stored patterns suggest_patterns could rank for the reply's call.
EligiblePatterns ==
  {k \in 1..Len(patterns) :
     /\ patterns[k].problemEmbedding # NullBlob
     /\ (reply.currentProject # "" /\ ~reply.includeCurrentProject)
          => patterns[k].projectId # reply.currentProject}

\* C14: suggest_patterns with no eligible pattern candidate (empty store or
\* every pattern excluded) answers with a typed no-content outcome, not
\* with a success carrying an empty suggestion list.
C14_NoCandidatesIsTyped ==
  (reply.op = "suggest_patterns" /\ EligiblePatterns = {})
    => reply.outcome \notin SuccessOutcomes

(***************************************************************************)
(* Pattern recorder                                                        *)
(***************************************************************************)
\* An INSERT that leaves the problem_embedding column NULL.
createPattern_NoVector(projectId, problem, problemEmbedding) ==
  [id |-> patternSeq + 1, projectId |-> projectId, problem |-> problem,
   problemEmbedding |-> NullBlob]

\* ProjectDatabase.createPattern: the row of the INSERT, its id the next of
\* the AUTOINCREMENT sequence (name, solution and notes are not modelled).
createPattern(projectId, problem, problemEmbedding) ==
  [id |-> patternSeq + 1, projectId |-> projectId, problem |-> problem,
   problemEmbedding |-> problemEmbedding]

\* record_pattern is called: the project is looked up first.
StartRecordPattern(t, problem) ==
  /\ tasks[t].pc = "idle"
  /\ patternSeq < MaxPatterns
  /\ tasks' = [tasks EXCEPT ![t] =
       IF ProjectId \in projects
         THEN [IdleTask EXCEPT !.op = "record_pattern", !.pc = "rp_embed",
                               !.content = problem]
         ELSE [IdleTask EXCEPT !.op = "record_pattern", !.pc = "done",
                               !.content = problem,
                               !.result = "PROJECT_NOT_FOUND"]]
  /\ UNCHANGED <<embedVars, projects, fs, db, fileIndex, clock, searchVars>>

\* await preload(); await embed(problem): a failure is caught and becomes
\* RECORD_ERROR.
RecordEmbed(t) ==
  /\ tasks[t].pc = "rp_embed"
  /\ \E ok \in BOOLEAN, ran \in BOOLEAN :
       /\ Initialize(ok)
       /\ ok \/ ran
       /\ tasks' = [tasks EXCEPT ![t] =
            IF ok /\ ran
              THEN [@ EXCEPT !.pc = "rp_store", !.embeds = <<tasks[t].content>>]
              ELSE [@ EXCEPT !.pc = "done", !.result = "RECORD_ERROR",
                             !.failedAt = "embed"]]
  /\ UNCHANGED <<callers, projects, fs, db, fileIndex, clock, searchVars>>

\* db.createPattern with the serialized vector, then db.logActivity, two
\* synchronous statements with no transaction around them.  The first INSERT
\* fails on the foreign key when the project is gone by now; the second may
\* fail on its own (database full or locked) after the first is stored.
\* Either failure is caught and becomes RECORD_ERROR.
RecordStore(t) ==
  /\ tasks[t].pc = "rp_store"
  /\ IF ProjectId \in projects
       THEN \E logged \in BOOLEAN :
            /\ patterns' = <<createPattern(ProjectId, tasks[t].content,
                               serializeEmbedding(embed(tasks[t].content)))>>
                           \o patterns
            /\ patternSeq' = patternSeq + 1
            /\ tasks' = [tasks EXCEPT ![t] =
                 IF logged
                   THEN [@ EXCEPT !.pc = "done", !.result = "RECORDED"]
                   ELSE [@ EXCEPT !.pc = "done", !.result = "RECORD_ERROR",
                                  !.failedAt = "log"]]
       ELSE /\ tasks' = [tasks EXCEPT ![t].pc = "done", ![t].result = "RECORD_ERROR",
                                      ![t].failedAt = "store"]
            /\ UNCHANGED <<patterns, patternSeq>>
  /\ UNCHANGED <<embedVars, projects, fs, db, fileIndex, clock, reply>>

\* The store before the calls observed: empty, or holding one pattern that
\* another registered project recorded earlier.
InitPatterns ==
  /\ embeddingPipeline = 0
  /\ initPromise = 0
  /\ loads = <<>>
  /\ callers = [c \in Callers |-> IdleCaller]
  /\ fs = [p \in Paths |-> IF extname(p) \in TEXT_EXTENSIONS THEN NoFile ELSE BinaryContent]
  /\ db = [p \in Paths |-> NoRow]
  /\ fileIndex = <<>>
  /\ clock = 0
  /\ tasks = [t \in TaskIds |-> IdleTask]
  /\ reply = NoReply
  /\ \/ /\ projects = {}
        /\ patterns = <<>>
        /\ patternSeq = 0
     \/ /\ projects = {"svc-a"}
        /\ patterns = <<[id |-> 1, projectId |-> "svc-a", problem |-> "renders a button",
                         problemEmbedding |->
                           serializeEmbedding(embed("renders a button"))]>>
        /\ patternSeq = 1

NextPatterns ==
  \/ \E t \in TaskIds, problem \in Contents : StartRecordPattern(t, problem)
  \/ \E t \in TaskIds : RecordEmbed(t)
  \/ \E t \in TaskIds : RecordStore(t)
  \/ \E t \in TaskIds : TaskEnds(t)
  \/ CreateProject
  \/ DeleteProject
  \/ Restart
  \/ \E q \in Queries, cp \in {"", ProjectId}, inc \in BOOLEAN :
       Suggest(q, cp, 10, 0, inc)

SpecPatterns == InitPatterns /\ [][NextPatterns]_vars

(***************************************************************************)
(* Claims on the pattern recorder                                          *)
(***************************************************************************)

\* C15: in every reachable state every stored pattern carries the vector of
\* its problem text; a row is written only by a call that embedded first,
\* and a record_pattern call whose embedding fails writes no row.
C15_VectorAlwaysPresent ==
  /\ [](\A k \in 1..Len(patterns) :
          /\ patterns[k].problemEmbedding # NullBlob
          /\ patterns[k].problemEmbedding =
               serializeEmbedding(embed(patterns[k].problem)))
  /\ [][\A t \in TaskIds :
          /\ (tasks[t].op = "record_pattern" /\ tasks[t].result = "none"
                /\ tasks'[t].result = "RECORD_ERROR"
                /\ tasks'[t].failedAt = "embed")
               => (patterns' = patterns /\ patternSeq' = patternSeq)
          /\ patternSeq' # patternSeq
               => (tasks[t].embeds = <<tasks[t].content>>
                     /\ tasks[t].pc = "rp_store")]_vars

\* A pattern is stored and a later record_pattern call has failed in embed.
C15_Witness ==
  /\ Len(patterns) > 0
  /\ \E t \in TaskIds : /\ tasks[t].op = "record_pattern"
                        /\ tasks[t].result = "RECORD_ERROR"
                        /\ tasks[t].failedAt = "embed"

\* The stored pattern r is still stored, unchanged, after the step.
Kept(r) == \E j \in 1..Len(patterns') : patterns'[j] = r

\* C16 (as claimed): once recorded, a pattern is never changed or removed
\* by any operation: record_pattern, suggest_patterns, project creation or
\* deletion, restart.
C16_PatternNeverRemoved ==
  [][\A k \in 1..Len(patterns) : Kept(patterns[k])]_vars

\* C16 (amended): a recorded pattern is never changed, and it is removed
\* only by the deletion of its origin project, which removes exactly the
\* patterns of that project; no id is handed out twice; and a
\* suggest_patterns call that excludes nothing, with floor 0 and a limit of
\* at least the size of the store, returns every stored pattern.
C16_PatternKeptUntilProjectDeleted ==
  /\ [][/\ \A k \in 1..Len(patterns) :
             Kept(patterns[k]) <=> patterns[k].projectId \in projects'
        /\ \A j \in 1..Len(patterns') :
             \/ \E k \in 1..Len(patterns) : patterns[k] = patterns'[j]
             \/ patterns'[j].id > patternSeq]_vars
  /\ [](/\ reply.op = "suggest_patterns"
        /\ reply.outcome = "success"
        /\ reply.min = 0
        /\ reply.limit >= Len(patterns)
        /\ (reply.currentProject = "" \/ reply.includeCurrentProject)
        => \A k \in 1..Len(patterns) :
             patterns[k].id <= reply.seen =>
               \E i \in 1..Len(reply.results) :
                 reply.results[i].patternId = patterns[k].id)

\* A pattern recorded before the project was deleted and registered again
\* is gone, while one recorded after is stored and was suggested.
C16_Witness ==
  /\ patternSeq = 2
  /\ Len(patterns) = 1
  /\ patterns[1].id = 2
  /\ reply.op = "suggest_patterns"
  /\ reply.outcome = "success"
  /\ Len(reply.results) = 1

(***************************************************************************)
(* Claims on the rows of the file index                                    *)
(***************************************************************************)
\* The step deletes the project.
ProjectDeleted == ProjectId \in projects /\ ProjectId \notin projects'

\* C17: no step of an indexing call removes a row, also not when the file
\* of the row is gone from disk; a row disappears exactly in the step that
\* deletes its project, which leaves no row of the project; rows exist only
\* for a registered project, and a search on a project without rows (as
\* after deleting and registering it again) finds no indexed content.
C17_RowsRemovedOnlyWithProject ==
  /\ [](ProjectId \notin projects => \A p \in Paths : db[p] = NoRow)
  /\ []((\A p \in Paths : db[p] = NoRow) =>
          \A q \in Queries :
            search_semantic(q, ProjectId, <<>>, 10, 0, TRUE).outcome
              \in {"PROJECT_NOT_FOUND", "NO_INDEXED_FILES"})
  /\ [][/\ \A p \in Paths : (db[p] # NoRow /\ db'[p] = NoRow) => ProjectDeleted
        /\ ProjectDeleted => \A p \in Paths : db'[p] = NoRow]_vars

\* The project is registered again after its deletion took the row of a
\* file that a batch still running had indexed, and a row outlives its file.
C17_Witness ==
  /\ ProjectId \in projects
  /\ db["a.ts"] = NoRow
  /\ \E t \in TaskIds : /\ tasks[t].op = "pm_index_files"
                        /\ Count("a.ts", tasks[t].indexedFiles) > 0
  /\ db["b.ts"] # NoRow
  /\ fs["b.ts"] = NoFile

(***************************************************************************)
(* The file_index table                                                    *)
(***************************************************************************)
TextPaths == {p \in Paths : extname(p) \in TEXT_EXTENSIONS}

\* The key columns of a row.
KeyOf(projectId, path) == [project_id |-> projectId, path |-> path]

\* An INSERT on a table without the UNIQUE(project_id, path) conflict
\* clause: every call adds a row.
indexFile_PlainInsert(table, projectId, path, ext, hash, preview, embedding, now) ==
  Append(table, KeyOf(projectId, path)
                  @@ upsertRow(NoRow, ext, hash, preview, embedding, now))

\* ProjectDatabase.indexFile on the table: INSERT, and ON CONFLICT(project_id,
\* path) DO UPDATE of the row that holds the key.
indexFile(table, projectId, path, ext, hash, preview, embedding, now) ==
  LET hits == {i \in 1..Len(table) :
                 table[i].project_id = projectId /\ table[i].path = path}
  IN IF hits = {}
       THEN Append(table, KeyOf(projectId, path)
                            @@ upsertRow(NoRow, ext, hash, preview, embedding, now))
       ELSE [i \in 1..Len(table) |->
               IF i \in hits
                 THEN KeyOf(projectId, path)
                        @@ upsertRow(table[i], ext, hash, preview, embedding, now)
                 ELSE table[i]]

\* Some indexing call reaches db.indexFile for (projectId, path) with the
\* content it read; the statement is synchronous and stamps new Date().  The
\* insert fails on the foreign key for a project that is not registered.
TableIndexFile(projectId, path, content) ==
  /\ projectId \in projects
  /\ clock < MaxClock
  /\ clock' = clock + 1
  /\ fileIndex' = indexFile(fileIndex, projectId, path, extname(path),
                            contentHash(content), contentPreview(content),
                            serializeEmbedding(embed(content)), clock + 1)
  /\ UNCHANGED <<embedVars, projects, fs, db, tasks, searchVars>>

\* Two registered projects and an empty table.
InitTable ==
  /\ embeddingPipeline = 0
  /\ initPromise = 0
  /\ loads = <<>>
  /\ callers = [c \in Callers |-> IdleCaller]
  /\ fs = [p \in Paths |-> IF extname(p) \in TEXT_EXTENSIONS THEN NoFile ELSE BinaryContent]
  /\ db = [p \in Paths |-> NoRow]
  /\ fileIndex = <<>>
  /\ clock = 0
  /\ tasks = [t \in TaskIds |-> IdleTask]
  /\ patterns = <<>>
  /\ patternSeq = 0
  /\ reply = NoReply
  /\ projects = PatternProjects

NextTable ==
  \/ \E pr \in PatternProjects, p \in TextPaths, c \in Contents :
       TableIndexFile(pr, p, c)
  \/ CreateProject
  \/ DeleteProject

SpecTable == InitTable /\ [][NextTable]_vars

\* C18: the table never holds two rows with the same (projectId, path); a
\* step that indexes a path already in the table keeps the number of rows
\* and replaces hash, preview, vector and timestamp of that row, and a step
\* adds at most one row, for a key that was not there.
C18_OneRowPerPath ==
  /\ [](\A i, j \in 1..Len(fileIndex) :
          (fileIndex[i].project_id = fileIndex[j].project_id
             /\ fileIndex[i].path = fileIndex[j].path) => i = j)
  /\ [][~ProjectDeleted =>
          /\ Len(fileIndex') \in {Len(fileIndex), Len(fileIndex) + 1}
          /\ \A i \in 1..Len(fileIndex) :
               /\ fileIndex'[i].project_id = fileIndex[i].project_id
               /\ fileIndex'[i].path = fileIndex[i].path
               /\ fileIndex'[i] # fileIndex[i] =>
                    /\ Len(fileIndex') = Len(fileIndex)
                    /\ fileIndex'[i].indexed_at = clock'
                    /\ \E c \in Contents :
                         /\ fileIndex'[i].content_hash = contentHash(c)
                         /\ fileIndex'[i].content_preview = contentPreview(c)
                         /\ fileIndex'[i].embedding =
                              serializeEmbedding(embed(c))]_vars

\* A path indexed twice with different content: one row, of the later call.
C18_Witness ==
  \E i \in 1..Len(fileIndex) :
    /\ fileIndex[i].indexed_at = 3
    /\ fileIndex[i].content_hash = contentHash("renders a button")
    /\ Len(fileIndex) = 2

\* C19: when an eligible candidate's stored vector is not of the query's
\* length, a search over the project's index reports a failure and returns
\* no ranked list, be it search_semantic or searchFilesByEmbedding.
C19_MismatchSurfaced ==
  (reply.op \in {"search_semantic", "searchFilesByEmbedding"}
     /\ reply.project \in projects /\ Mismatched # {})
    => reply.outcome \notin SuccessOutcomes

\* The same for search_semantic alone.
C19_HoldsOfSearchSemantic ==
  (reply.op = "search_semantic" /\ reply.project \in projects /\ Mismatched # {})
    => reply.outcome = "RAISED"

(***************************************************************************)
(* Discovery: the walk of pm_index_files                                   *)
(***************************************************************************)
\* Here a path is the sequence of its names below the project root, and fs
\* maps the paths of TreeFiles to the content of the file or NoFile; a
\* directory exists when a file below it does.
SKIP_DIRS ==
  {"node_modules", ".git", "dist", "build", "out",
   ".next", ".nuxt", "coverage", ".cache", "__pycache__",
   "vendor", "target", "bin", "obj", ".idea", ".vscode"}

TreeFiles ==
  {<<".eslintrc.json">>, <<".git", "a.ts">>, <<"node_modules", "lib.js">>,
   <<"src", ".cache", "a.ts">>, <<"src", "a.ts">>, <<"src", "dist", "lib.js">>}

\* readdir order of the names.
NameOrder ==
  <<".cache", ".eslintrc.json", ".git", "a.ts", "dist", "lib.js", "node_modules", "src">>

\* entry.name.startsWith('.')
startsWithDot(name) == name \in {".cache", ".eslintrc.json", ".git"}

IsPrefix(dir, f) == Len(dir) <= Len(f) /\ SubSeq(f, 1, Len(dir)) = dir

\* existsSync(path): a file, or a directory with a file below it.
existsSync(path) ==
  \E f \in TreeFiles : fs[f] # NoFile /\ IsPrefix(path, f)

isFile(path) == path \in TreeFiles /\ fs[path] # NoFile

isDirectory(path) ==
  \E f \in TreeFiles : fs[f] # NoFile /\ IsPrefix(path, f) /\ Len(f) > Len(path)

\* readdir(dir): the names of its entries, in order.
readdir(dir) ==
  SelectSeq(NameOrder, LAMBDA n : existsSync(Append(dir, n)))

RECURSIVE Flatten(_)
Flatten(lists) ==
  IF lists = <<>> THEN <<>> ELSE Head(lists) \o Flatten(Tail(lists))

\* scan(currentPath) of findTextFiles: files with a text extension are
\* kept; directories are entered unless their name is in SKIP_DIRS or
\* starts with '.'; a readdir that throws (not a directory) adds nothing.
RECURSIVE scan(_)
scan(currentPath) ==
  IF ~isDirectory(currentPath) THEN <<>>
  ELSE LET entries == readdir(currentPath)
       IN Flatten([i \in 1..Len(entries) |->
            LET fullPath == Append(currentPath, entries[i])
            IN IF isDirectory(fullPath)
                 THEN IF entries[i] \notin SKIP_DIRS /\ ~startsWithDot(entries[i])
                        THEN scan(fullPath) ELSE <<>>
                 ELSE IF isFile(fullPath) /\ extname(entries[i]) \in TEXT_EXTENSIONS
                        THEN <<fullPath>> ELSE <<>>])

\* The paths argument of pm_index_files: absent, or a list of paths
\* relative to the project root.
NoPathsArg == [given |-> FALSE]
PathsArgs ==
  {NoPathsArg} \cup
  {[given |-> TRUE, list |-> l] :
     l \in {<<>>, << <<"src">> >>, << <<"node_modules">> >>,
            << <<"src">>, <<"src", ".cache">> >>, << <<"src", "a.ts">> >>}}

\* allFiles of pm_index_files: the roots are paths joined to the project
\* path, or the project path alone; each existing root is scanned.
allFiles(paths) ==
  LET searchPaths == IF paths.given THEN paths.list ELSE << <<>> >>
  IN Flatten([i \in 1..Len(searchPaths) |->
       IF existsSync(searchPaths[i]) THEN scan(searchPaths[i]) ELSE <<>>])

\* A pm_index_files call on a registered project with an empty index and a
\* working model: every file of allFiles is read, embedded and stored.
WalkIndexFiles(paths) ==
  /\ ProjectId \in projects
  /\ reply' = [op |-> "pm_index_files", paths |-> paths,
               indexed |-> allFiles(paths)]
  /\ UNCHANGED <<embedVars, indexVars, patterns, patternSeq>>

\* A registered project over any subset of the files of the tree.
InitWalk ==
  /\ embeddingPipeline = 0
  /\ initPromise = 0
  /\ loads = <<>>
  /\ callers = [c \in Callers |-> IdleCaller]
  /\ fs \in [TreeFiles -> {NoFile, "parses tokens"}]
  /\ db = [p \in Paths |-> NoRow]
  /\ fileIndex = <<>>
  /\ clock = 0
  /\ tasks = [t \in TaskIds |-> IdleTask]
  /\ patterns = <<>>
  /\ patternSeq = 0
  /\ reply = NoReply
  /\ projects = {ProjectId}

NextWalk == \E paths \in PathsArgs : WalkIndexFiles(paths)

SpecWalk == InitWalk /\ [][NextWalk]_vars

\* C20: no file indexed by pm_index_files lies in a directory of SKIP_DIRS,
\* nor has a name or an enclosing directory name that begins with '.',
\* for the walk of the whole project and for every paths subset.
C20_SkipsHiddenAndBuildDirs ==
  reply.op = "pm_index_files" =>
    \A k \in 1..Len(reply.indexed) :
      LET f == reply.indexed[k]
      IN \A i \in 1..Len(f) :
           /\ ~startsWithDot(f[i])
           /\ i < Len(f) => f[i] \notin SKIP_DIRS

\* What does hold: below the roots it was given, the walk enters no
\* directory of SKIP_DIRS and none whose name begins with '.'.
C20_HoldsOfDirectoriesEntered ==
  reply.op = "pm_index_files" =>
    \A k \in 1..Len(reply.indexed) :
      LET f == reply.indexed[k]
          roots == IF reply.paths.given
                     THEN {reply.paths.list[j] : j \in 1..Len(reply.paths.list)}
                     ELSE {<<>>}
      IN \E r \in roots :
           /\ IsPrefix(r, f)
           /\ \A i \in (Len(r) + 1)..(Len(f) - 1) :
                f[i] \notin SKIP_DIRS /\ ~startsWithDot(f[i])

(***************************************************************************)
(* The embedding codec and the similarity functions on arbitrary vectors   *)
(***************************************************************************)
MaxWords == 3

\* The float32 values an ArrayBuffer may hold, as exact quantities.
WordValues == {0, 98, -20}

\* The ArrayBuffers of one to MaxWords float32 words.
ArrayBuffers == UNION {[1..n -> WordValues] : n \in 1..MaxWords}

\* Every Float32Array over those buffers: the ones that own their buffer
\* (byteOffset 0, full length) and the views into a larger one, as
\* subarray() or new Float32Array(buffer, byteOffset, length) make them.
Float32Arrays ==
  {[buffer |-> b, byteOffset |-> 4 * o, length |-> n] :
     <<b, o, n>> \in {x \in ArrayBuffers \X (0..MaxWords) \X (0..MaxWords) :
                        x[2] + x[3] <= Len(x[1])}}

\* Vectors in hundredths: unit vectors, longer ones and the zero vector.
SimilarityInputs ==
  {<<100>>, <<100, 0>>, <<0, 100>>, <<60, 80>>, <<-60, 80>>, <<80, 60>>,
   <<150, 0>>, <<120, 90>>, <<50, 0>>, <<0, 0>>, <<100, 100>>}

\* deserializeEmbedding(serializeEmbedding(v))
RoundTrip(v) ==
  /\ reply' = [op |-> "roundTrip", input |-> v,
               output |-> deserializeEmbedding(serializeEmbedding(v))]
  /\ UNCHANGED <<embedVars, indexVars, patterns, patternSeq>>

\* cosineSimilarity(a, a), by the function of embeddings.ts and by the one
\* of database.ts.
SelfSimilarity(a) ==
  /\ reply' = [op |-> "cosineSimilarity", a |-> a,
               embeddings |-> cosineSimilarity(a, a),
               database |-> dbCosineSimilarity(a, a)]
  /\ UNCHANGED <<embedVars, indexVars, patterns, patternSeq>>

InitCodec == InitEmbed

NextCodec ==
  \/ \E v \in Float32Arrays : RoundTrip(v)
  \/ \E a \in SimilarityInputs : SelfSimilarity(a)

SpecCodec == InitCodec /\ [][NextCodec]_vars

\* C21: for every float32 vector v, whether it owns its buffer or is a view
\* into a larger one, deserializeEmbedding(serializeEmbedding(v)) has the
\* length of v and each of its elements equals the element of v at the same
\* index.
C21_RoundTripExact ==
  reply.op = "roundTrip" =>
    /\ Len(reply.output) = reply.input.length
    /\ reply.output = Elements(reply.input)

\* What does hold: the round trip is exact for every vector that owns its
\* buffer, as the ones embed() returns do.
C21_HoldsForOwnedBuffers ==
  (/\ reply.op = "roundTrip"
   /\ reply.input.byteOffset = 0
   /\ reply.input.length = Len(reply.input.buffer))
    => reply.output = Elements(reply.input)

\* x, a similarity in ten-thousandths, is 1.0 within 1e-5.
IsOne(x) ==
  LET d == IF x >= 10000 THEN x - 10000 ELSE 10000 - x
  IN d * 10 <= 1

\* C22: for all vectors a, unit-normalized or not, cosineSimilarity(a, a)
\* is 1.0 within a tolerance of 1e-5.
C22_SelfSimilarityIsOne ==
  reply.op = "cosineSimilarity" =>
    /\ ~reply.embeddings.threw /\ IsOne(reply.embeddings.value)
    /\ IsOne(reply.database)

\* What does hold: cosineSimilarity of embeddings.ts is 1.0 on unit vectors,
\* and the one of database.ts on every vector but the zero vector.
C22_HoldsOfUnitVectors ==
  reply.op = "cosineSimilarity" =>
    /\ Dot(reply.a, reply.a) = 10000 => IsOne(reply.embeddings.value)
    /\ Dot(reply.a, reply.a) # 0 => IsOne(reply.database)

(***************************************************************************)
(* Overlapping indexing calls on one file                                  *)
(***************************************************************************)
\* Two calls in flight at once: every await of a handler lets the other
\* call, and a writer of the file, run.
RaceTasks == {"t1", "t2"}
RacePath == "a.ts"

\* A registered project with one text file, not indexed yet, and the model
\* loaded by an earlier call.
InitRace ==
  /\ embeddingPipeline = 1
  /\ initPromise = 1
  /\ loads = <<"fulfilled">>
  /\ callers = [c \in Callers |-> IdleCaller]
  /\ projects = {ProjectId}
  /\ fs = [p \in Paths |-> IF p = RacePath THEN "parses tokens"
                           ELSE IF extname(p) \in TEXT_EXTENSIONS THEN NoFile
                           ELSE BinaryContent]
  /\ db = [p \in Paths |-> NoRow]
  /\ fileIndex = <<>>
  /\ clock = 0
  /\ tasks = [t \in RaceTasks |-> IdleTask]
  /\ patterns = <<>>
  /\ patternSeq = 0
  /\ reply = NoReply

NextRace ==
  \/ \E t \in RaceTasks, reindex \in BOOLEAN : StartIndexFiles(t, reindex)
  \/ \E t \in RaceTasks, force \in BOOLEAN : StartIndexFile(t, RacePath, force)
  \/ \E t \in RaceTasks : StartIndexFileAfterWrite(t, RacePath)
  \/ \E t \in RaceTasks : Preload(t)
  \/ \E t \in RaceTasks : Scan(t)
  \/ \E t \in RaceTasks : Read(t)
  \/ \E t \in RaceTasks : Embed(t)
  \/ \E t \in RaceTasks : StatAndStore(t)
  \/ \E t \in RaceTasks : TaskEnds(t)
  \/ \E c \in Contents : WriteFile(RacePath, c)

SpecRace == InitRace /\ [][NextRace]_vars

\* The row was derived from the content c.
DerivedFrom(row, c) ==
  /\ row.content_hash = contentHash(c)
  /\ row.content_preview = contentPreview(c)
  /\ row.embedding = serializeEmbedding(embed(c))

\* C23: in every reachable state, under any interleaving of concurrent index
\* operations and file writes, the content_hash, content_preview and
\* embedding of each file_index row are derived from one and the same read
\* of the file's content; no row mixes values of two content versions.
C23_RowFromOneRead ==
  \A p \in Paths : db[p] # NoRow => \E c \in Contents : DerivedFrom(db[p], c)

\* C23 witness: the file was rewritten between the read and the upsert of
\* one call while another call, which read the new content, awaits its own
\* upsert over the row the first one stored.
C23_Witness ==
  \E t \in RaceTasks, u \in RaceTasks :
    /\ t # u
    /\ tasks[t].pc = "done" /\ tasks[t].indexedFiles = <<RacePath>>
    /\ tasks[u].pc = "stat" /\ tasks[u].content = fs[RacePath]
    /\ db[RacePath] # NoRow
    /\ db[RacePath].content_hash # contentHash(fs[RacePath])

\* C26: when index operations on one (project, path) overlap with each other
\* and with file writes, once the stored content_hash equals the hash of the
\* file's current content it stays equal until the file is next modified: no
\* upsert replaces the row of newer content with one of older content.
C26_NeverOlderOverNewer ==
  [][\A p \in Paths :
       (/\ fs[p] # NoFile /\ db[p] # NoRow
        /\ db[p].content_hash = contentHash(fs[p])
        /\ fs'[p] = fs[p])
         => (db'[p] # NoRow /\ db'[p].content_hash = contentHash(fs'[p]))]_vars

(***************************************************************************)
(* Failures and the rows already stored                                    *)
(***************************************************************************)
\* This step is the failure of the file a call is processing: the batch
\* pushes an error, pm_index_file returns INDEX_FAILED, indexFileAfterWrite
\* returns from its catch.
FileFailed(t) ==
  /\ tasks[t].pc \in {"preload", "read", "embed", "stat"}
  /\ tasks'[t].op = tasks[t].op
  /\ \/ Len(tasks'[t].errors) = Len(tasks[t].errors) + 1
     \/ tasks[t].failedAt = "none" /\ tasks'[t].failedAt # "none"

\* C24: when processing a file fails at any step (read, embed, stat or
\* upsert), the existing row of that (projectId, path) keeps its hash,
\* preview, vector and indexed_at, and the rows upserted for other files
\* earlier in the same batch remain stored: no row changes.
C24_FailureKeepsRows ==
  [][\A t \in TaskIds : FileFailed(t) => db' = db]_vars

\* C24 witness: a returned batch that indexed a.ts and then failed on b.ts;
\* the row of a.ts is the one the batch stored and b.ts has the row it had
\* before the batch.
C24_Witness ==
  \E t \in TaskIds :
    LET tk == tasks[t] IN
    /\ tk.op = "pm_index_files" /\ tk.pc = "done"
    /\ tk.files = <<"a.ts", "b.ts">>
    /\ tk.indexedFiles = <<"a.ts">> /\ tk.errors = <<"b.ts">>
    /\ db["a.ts"] # NoRow /\ db["a.ts"].indexed_at >= tk.started
    /\ db["b.ts"] # NoRow /\ db["b.ts"].indexed_at < tk.started

(***************************************************************************)
(* The paths subset of pm_index_files                                      *)
(***************************************************************************)
\* No directory between the root r and the file f is one the walk excludes.
OutsideExcluded(r, f) ==
  \A i \in (Len(r) + 1)..(Len(f) - 1) :
    f[i] \notin SKIP_DIRS /\ ~startsWithDot(f[i])

InList(f, list) == \E k \in 1..Len(list) : list[k] = f

\* C25: when pm_index_files is given a paths subset, every existing text
\* file that a path names directly, or that lies under a named directory
\* outside excluded directories, is processed: it is one of allFiles, which
\* totalFiles counts and the loop takes to indexed, skipped or error.
C25_NamedFilesProcessed ==
  (reply.op = "pm_index_files" /\ reply.paths.given) =>
    \A f \in TreeFiles :
      (/\ fs[f] # NoFile
       /\ extname(f[Len(f)]) \in TEXT_EXTENSIONS
       /\ \E k \in 1..Len(reply.paths.list) :
            LET r == reply.paths.list[k]
            IN r = f \/ (IsPrefix(r, f) /\ OutsideExcluded(r, f)))
        => InList(f, reply.indexed)

\* What does hold: the files under a named directory, outside excluded
\* directories, are all processed.
C25_HoldsOfNamedDirectories ==
  (reply.op = "pm_index_files" /\ reply.paths.given) =>
    \A f \in TreeFiles :
      (/\ fs[f] # NoFile
       /\ extname(f[Len(f)]) \in TEXT_EXTENSIONS
       /\ \E k \in 1..Len(reply.paths.list) :
            LET r == reply.paths.list[k]
            IN r # f /\ IsPrefix(r, f) /\ OutsideExcluded(r, f))
        => InList(f, reply.indexed)

(***************************************************************************)
(* The outcome of record_pattern and the pattern store                     *)
(***************************************************************************)
\* This step is the one in which the record_pattern call t gets its result.
Returns(t) ==
  /\ tasks'[t].op = "record_pattern"
  /\ tasks[t].result = "none"
  /\ tasks'[t].result # "none"

\* C28: record_pattern is all-or-nothing with respect to its outcome: when
\* it returns PROJECT_NOT_FOUND or RECORD_ERROR the pattern store is
\* unchanged, and when it returns success exactly one row was added, for a
\* failure at any step, the activity-log write after the insert included.
C28_AllOrNothing ==
  [][\A t \in TaskIds :
       Returns(t) =>
         /\ tasks'[t].result \in {"PROJECT_NOT_FOUND", "RECORD_ERROR"}
              => patterns' = patterns
         /\ tasks'[t].result = "RECORDED"
              => (Len(patterns') = Len(patterns) + 1
                    /\ SubSeq(patterns', 2, Len(patterns')) = patterns)]_vars

\* What does hold: a call that fails before or in the pattern insert leaves
\* the store unchanged, and a successful call adds exactly one row.
C28_HoldsUpToTheInsert ==
  [][\A t \in TaskIds :
       Returns(t) =>
         /\ (tasks'[t].result \in {"PROJECT_NOT_FOUND", "RECORD_ERROR"}
               /\ tasks'[t].failedAt # "log")
              => patterns' = patterns
         /\ tasks'[t].result = "RECORDED"
              => (Len(patterns') = Len(patterns) + 1
                    /\ SubSeq(patterns', 2, Len(patterns')) = patterns)]_vars

(***************************************************************************)
(* The aggregate result of pm_index_files                                  *)
(***************************************************************************)
MaxBatch == 11

\* errors: errors.length > 0 ? errors.slice(0, 10) : undefined
Undefined == [defined |-> FALSE]
Defined(list) == [defined |-> TRUE, list |-> list]

\* The data of the result with the whole errors array.
batchData_NoSlice(tk) ==
  [totalFiles |-> Len(tk.files), indexed |-> Len(tk.indexedFiles),
   skipped |-> Len(tk.skippedFiles),
   errors |-> IF Len(tk.errors) > 0 THEN Defined(tk.errors) ELSE Undefined]

\* data of the result of pm_index_files: {totalFiles: allFiles.length,
\* indexed, skipped, errors}.
batchData(tk) ==
  [totalFiles |-> Len(tk.files), indexed |-> Len(tk.indexedFiles),
   skipped |-> Len(tk.skippedFiles),
   errors |-> IF Len(tk.errors) > 0 THEN Defined(Slice0(tk.errors, 10))
              ELSE Undefined]

\* pm_index_files has enumerated n files (here named 1 .. n) and enters its
\* loop, or returns at once when there is none.  The call has no result yet.
BatchStart(t, n) ==
  /\ tasks[t].pc = "idle"
  /\ tasks' = [tasks EXCEPT ![t] =
       LET tk == [IdleTask EXCEPT !.op = "pm_index_files", !.files = [i \in 1..n |-> i]]
       IN IF n = 0 THEN [tk EXCEPT !.pc = "done", !.result = "BATCH"]
          ELSE [tk EXCEPT !.idx = 1, !.pc = "read"]]
  /\ reply' = NoReply
  /\ UNCHANGED <<embedVars, projects, fs, db, fileIndex, clock, patterns, patternSeq>>

\* One turn of the loop, by its three exits: `continue` after skipped++,
\* indexed++ at the end of the try, errors.push in the catch.
BatchFile(t) ==
  /\ tasks[t].op = "pm_index_files" /\ tasks[t].pc = "read"
  /\ \E exit \in {"skipped", "indexed", "error"} :
       tasks' = [tasks EXCEPT ![t] =
         CASE exit = "skipped" -> FileSkipped(@)
           [] exit = "indexed" -> FileIndexed(@)
           [] OTHER -> FileFails(@, "read")]
  /\ UNCHANGED <<embedVars, projects, fs, db, fileIndex, clock, searchVars>>

\* The return statement after the loop; `failed` keeps the number of files
\* whose turn ended in the catch.
BatchReturns(t) ==
  /\ tasks[t].op = "pm_index_files" /\ tasks[t].pc = "done"
  /\ reply' = [op |-> "pm_index_files", data |-> batchData(tasks[t]),
               failed |-> Len(tasks[t].errors)]
  /\ tasks' = [tasks EXCEPT ![t] = IdleTask]
  /\ UNCHANGED <<embedVars, projects, fs, db, fileIndex, clock, patterns, patternSeq>>

InitBatch ==
  /\ embeddingPipeline = 0
  /\ initPromise = 0
  /\ loads = <<>>
  /\ callers = [c \in Callers |-> IdleCaller]
  /\ projects = {ProjectId}
  /\ fs = [p \in Paths |-> IF extname(p) \in TEXT_EXTENSIONS THEN NoFile ELSE BinaryContent]
  /\ db = [p \in Paths |-> NoRow]
  /\ fileIndex = <<>>
  /\ clock = 0
  /\ tasks = [t \in TaskIds |-> IdleTask]
  /\ patterns = <<>>
  /\ patternSeq = 0
  /\ reply = NoReply

NextBatch ==
  \/ \E t \in TaskIds, n \in {0, 1, MaxBatch} : BatchStart(t, n)
  \/ \E t \in TaskIds : BatchFile(t)
  \/ \E t \in TaskIds : BatchReturns(t)

SpecBatch == InitBatch /\ [][NextBatch]_vars

\* C29: the result of pm_index_files satisfies totalFiles = indexed +
\* skipped + (number of files whose processing failed) for every batch; the
\* reported errors list has at most 10 entries and is absent exactly when no
\* file failed.
C29_AggregateCounts ==
  reply.op = "pm_index_files" =>
    LET d == reply.data IN
    /\ d.totalFiles = d.indexed + d.skipped + reply.failed
    /\ d.errors.defined => Len(d.errors.list) <= 10
    /\ ~d.errors.defined <=> reply.failed = 0

\* C29 witness: a batch in which more than ten files failed has returned,
\* with ten errors reported.
C29_Witness ==
  /\ reply.op = "pm_index_files"
  /\ reply.failed > 10
  /\ reply.data.errors.defined /\ Len(reply.data.errors.list) = 10
  /\ reply.data.totalFiles = reply.failed + reply.data.indexed + reply.data.skipped

(***************************************************************************)
(* Caller-supplied paths: the key of a row and the file that is read       *)
(***************************************************************************)
\* Paths are lists of segments; absolute ones start at the root directory.
\* projectInfo.path of the project, and the text files on the disk, in
\* readdir order: two of the project and one of a neighbouring directory.
projectPath == <<"work", "demo">>
DiskFiles ==
  << <<"work", "demo", "a.ts">>, <<"work", "demo", "src", "b.ts">>,
     <<"work", "other", "secret.ts">> >>

\* path.normalize on segments: '.' is dropped, '..' removes the segment
\* before it (and nothing at the root).
RECURSIVE resolveSegments(_, _)
resolveSegments(done, rest) ==
  IF rest = <<>> THEN done
  ELSE IF Head(rest) = "." THEN resolveSegments(done, Tail(rest))
  ELSE IF Head(rest) = ".."
    THEN resolveSegments(IF done = <<>> THEN <<>> ELSE SubSeq(done, 1, Len(done) - 1),
                         Tail(rest))
  ELSE resolveSegments(Append(done, Head(rest)), Tail(rest))

\* path.join(base, p): concatenation, normalized.
join(base, p) == resolveSegments(<<>>, base \o p)

\* path.relative(from, to) of two absolute paths: one '..' for each segment
\* of `from` below the common prefix, then the rest of `to`.
relative(from, to) ==
  LET common == CHOOSE n \in 0..Len(from) :
                  /\ n <= Len(to) /\ SubSeq(from, 1, n) = SubSeq(to, 1, n)
                  /\ \A m \in (n + 1)..Len(from) :
                       ~(m <= Len(to) /\ SubSeq(from, 1, m) = SubSeq(to, 1, m))
  IN [i \in 1..(Len(from) - common) |-> ".."] \o SubSeq(to, common + 1, Len(to))

\* The path argument of pm_index_file and indexFileAfterWrite: spellings of
\* a.ts, a file in a subdirectory, a missing file, a path with '..' segments.
RelativePaths ==
  {<<"a.ts">>, <<".", "a.ts">>, <<"src", "..", "a.ts">>, <<"src", "b.ts">>,
   <<"missing.ts">>, <<"..", "other", "secret.ts">>}

\* The paths argument of pm_index_files.
PathsArguments ==
  {NoPathsArg} \cup
  {[given |-> TRUE, list |-> l] :
     l \in {<< <<"src">> >>, << <<".">> >>, << <<"..", "other">> >>}}

\* existsSync(path)
pathExists(path) ==
  \E k \in 1..Len(DiskFiles) : IsPrefix(path, DiskFiles[k])

\* findTextFiles(dirPath) on this disk, which has no excluded directory:
\* the files below dirPath; none when dirPath is a file.
textFilesUnder(dirPath) ==
  SelectSeq(DiskFiles, LAMBDA f : IsPrefix(dirPath, f) /\ Len(f) > Len(dirPath))

\* The try block of the three entry points for one file: the hash gate of
\* pm_index_files and pm_index_file looks the row up under `key`, and
\* db.indexFile stores it under `key`.
RECURSIVE indexEach(_, _, _)
indexEach(table, keys, gated) ==
  IF keys = <<>> THEN table
  ELSE LET key == Head(keys)
           content == "parses tokens"
           same == \E i \in 1..Len(table) :
                     /\ table[i].project_id = ProjectId /\ table[i].path = key
                     /\ table[i].content_hash = contentHash(content)
       IN indexEach(IF gated /\ same THEN table
                    ELSE indexFile(table, ProjectId, key, extname(key[Len(key)]),
                                   contentHash(content), contentPreview(content),
                                   serializeEmbedding(embed(content)), clock),
                    Tail(keys), gated)

\* pm_index_files(project, paths, reindex) with a working model: the roots
\* are joined to the project path, every file found is read and stored
\* under relative(projectPath, filePath).
PathIndexFiles(paths, reindex) ==
  LET searchPaths == IF paths.given
                       THEN [i \in 1..Len(paths.list) |-> join(projectPath, paths.list[i])]
                       ELSE <<projectPath>>
      found == Flatten([i \in 1..Len(searchPaths) |->
                 IF pathExists(searchPaths[i]) THEN textFilesUnder(searchPaths[i])
                 ELSE <<>>])
  IN /\ fileIndex' = indexEach(fileIndex,
                       [i \in 1..Len(found) |-> relative(projectPath, found[i])],
                       ~reindex)
     /\ reply' = [op |-> "pm_index_files", read |-> found]
     /\ UNCHANGED <<embedVars, projects, fs, db, clock, tasks, patterns, patternSeq>>

\* pm_index_file(project, path, force) with a working model: the file at
\* join(projectInfo.path, relativePath) is read and stored under relativePath
\* as the caller spelled it.
PathIndexFile(relativePath, force) ==
  LET filePath == join(projectPath, relativePath)
      found == IF pathExists(filePath) THEN <<filePath>> ELSE <<>>
  IN /\ fileIndex' = indexEach(fileIndex,
                       IF found = <<>> THEN <<>> ELSE <<relativePath>>, ~force)
     /\ reply' = [op |-> "pm_index_file", read |-> found]
     /\ UNCHANGED <<embedVars, projects, fs, db, clock, tasks, patterns, patternSeq>>

\* indexFileAfterWrite(db, project, relativePath): the same without the gate.
PathIndexFileAfterWrite(relativePath) ==
  LET filePath == join(projectPath, relativePath)
      found == IF pathExists(filePath) THEN <<filePath>> ELSE <<>>
  IN /\ fileIndex' = indexEach(fileIndex,
                       IF found = <<>> THEN <<>> ELSE <<relativePath>>, FALSE)
     /\ reply' = [op |-> "indexFileAfterWrite", read |-> found]
     /\ UNCHANGED <<embedVars, projects, fs, db, clock, tasks, patterns, patternSeq>>

\* A registered project with an empty index.
InitPaths ==
  /\ embeddingPipeline = 0
  /\ initPromise = 0
  /\ loads = <<>>
  /\ callers = [c \in Callers |-> IdleCaller]
  /\ projects = {ProjectId}
  /\ fs = [p \in Paths |-> IF extname(p) \in TEXT_EXTENSIONS THEN NoFile ELSE BinaryContent]
  /\ db = [p \in Paths |-> NoRow]
  /\ fileIndex = <<>>
  /\ clock = 0
  /\ tasks = [t \in TaskIds |-> IdleTask]
  /\ patterns = <<>>
  /\ patternSeq = 0
  /\ reply = NoReply

NextPaths ==
  \/ \E paths \in PathsArguments, reindex \in BOOLEAN : PathIndexFiles(paths, reindex)
  \/ \E p \in RelativePaths, force \in BOOLEAN : PathIndexFile(p, force)
  \/ \E p \in RelativePaths : PathIndexFileAfterWrite(p)

SpecPaths == InitPaths /\ [][NextPaths]_vars

\* C27: each file on disk has at most one file_index row per project,
\* whichever entry point indexed it and however the caller spelled the
\* relative path: pm_index_file and indexFileAfterWrite store the row under
\* the key pm_index_files derives for the file.
C27_OneRowPerFile ==
  \A i \in 1..Len(fileIndex), j \in 1..Len(fileIndex) :
    (/\ fileIndex[i].project_id = fileIndex[j].project_id
     /\ join(projectPath, fileIndex[i].path) = join(projectPath, fileIndex[j].path))
      => i = j

\* What does hold: the rows pm_index_files stores are keyed by the
\* normalized relative path, one per file.
C27_HoldsOfBatchKeys ==
  [][reply'.op = "pm_index_files" =>
       \A k \in 1..Len(reply'.read) :
         Cardinality({i \in 1..Len(fileIndex') :
           fileIndex'[i].path = relative(projectPath, reply'.read[k])}) = 1]_vars

\* C30: every file read and indexed by pm_index_files, pm_index_file or
\* indexFileAfterWrite lies under the root path of the project, for every
\* caller-supplied path, paths with '..' segments included.
C30_StaysUnderProjectRoot ==
  /\ reply.op \in IndexOps =>
       \A k \in 1..Len(reply.read) : IsPrefix(projectPath, reply.read[k])
  /\ \A i \in 1..Len(fileIndex) :
       IsPrefix(projectPath, join(projectPath, fileIndex[i].path))

\* What does hold: with paths free of '..' segments every file read lies
\* under the project root.
C30_HoldsWithoutDotDot ==
  \A i \in 1..Len(fileIndex) :
    (\A k \in 1..Len(fileIndex[i].path) : fileIndex[i].path[k] # "..")
      => IsPrefix(projectPath, join(projectPath, fileIndex[i].path))

====
